---- MODULE Spec2Model ----
(***************************************************************************)
(* The challenge-flow-count metric of the analytics crate                  *)
(* (crates/analytics/src/auth_events/metrics/challenge_flow_count.rs):     *)
(* load_metrics builds a query with a QueryBuilder, hands it to the        *)
(* backend handle ("pool") through execute_query, and folds the returned   *)
(* rows into a set of (AuthEventMetricsBucketIdentifier, AuthEventMetricRow)*)
(* pairs.  Each statement of load_metrics is one step of a computation.    *)
(***************************************************************************)
EXTENDS Integers, Sequences, FiniteSets, TLC

\* ------------------------------------------------------------------ bounds

\* Longest row sequence the backend returns for one query.
MaxRows == 2

\* Most select expressions / filters a generic client of the builder adds.
MaxClauses == 2

\* Longest row sequence the backend returns for one query while several
\* computations use the handle together.
MaxRowsTogether == 1

\* ------------------------------------------------------------- input domains

None == "None"

\* publishable_key values (the caller's tenant scope).
PublishableKeys == {"pk_a", "pk_b"}

\* _merchant_id values.
MerchantIds == {"m_1"}

\* Option<Granularity>.
Granularities == {None, "G_FifteenMin"}

\* TimeRange { start_time, end_time: Option<_> }.
TimeRanges == {[start_time |-> "T", end_time |-> None],
               [start_time |-> "T", end_time |-> "T+60"]}

\* Values of AuthEventMetricRow.time_bucket (Option<String>) and .count.
TimeBuckets == {None, "00:00", "00:15"}

Counts == {1, 7}

\* AuthEventMetricRow, as far as load_metrics reads it.
AuthEventMetricRow == [time_bucket : TimeBuckets, count : Counts]

\* Errors the backend handle reports from execute_query's inner result.
BackendErrors == {"Transport", "Timeout", "Permission", "Rejected",
                  "RowDeserialization"}

\* ------------------------------------------------------------ sequences

Range(s) == {s[i] : i \in DOMAIN s}

SeqsUpTo(S, n) == UNION {[1..k -> S] : k \in 0..n}

\* The multiset of a row sequence: row -> number of occurrences.
BagOf(s) == [x \in AuthEventMetricRow |-> Cardinality({i \in DOMAIN s : s[i] = x})]

\* ------------------------------------------------------------ query builder

\* QueryBuilder::new(collection)
QueryBuilderNew(collection) ==
    [collection |-> collection, columns |-> <<>>, filters |-> <<>>,
     group_by |-> <<>>]

BuilderOk(qb) == [ok |-> TRUE, qb |-> qb]

BuilderErr(e) == [ok |-> FALSE, err |-> e]

Aliases(qb) == {qb.columns[i].alias : i \in DOMAIN qb.columns} \ {None}

\* add_select_column(expr): appends one select expression; the same alias
\* registered twice is a clause error.
AddSelectColumn(qb, expr) ==
    IF expr.alias # None /\ expr.alias \in Aliases(qb)
    THEN BuilderErr("DuplicateAlias")
    ELSE BuilderOk([qb EXCEPT !.columns = Append(@, expr)])

\* add_granularity_in_mins(granularity): the time-bucketing expression of
\* that width, selected under the name time_bucket.
AddGranularityInMins(qb, granularity) ==
    AddSelectColumn(qb, [fn |-> "time_bucket", field |-> granularity,
                         alias |-> "time_bucket"])

\* add_filter_clause(column, value): an equality predicate; an empty column
\* name is a clause error.
AddFilterClause(qb, column, value) ==
    IF column = ""
    THEN BuilderErr("EmptyColumnName")
    ELSE BuilderOk([qb EXCEPT !.filters =
                       Append(@, [column |-> column, op |-> "=", value |-> value])])

\* add_bool_filter_clause(column, flag): a boolean truth test.
AddBoolFilterClause(qb, column, flag) ==
    IF column = ""
    THEN BuilderErr("EmptyColumnName")
    ELSE BuilderOk([qb EXCEPT !.filters =
                       Append(@, [column |-> column, op |-> "bool", value |-> flag])])

\* add_custom_filter-style range predicate used by the time range.
AddRangeClause(qb, column, op, value) ==
    BuilderOk([qb EXCEPT !.filters =
                  Append(@, [column |-> column, op |-> op, value |-> value])])

\* TimeRange::set_filter_clause(builder): the lower bound always, the upper
\* bound when end_time is given.
SetFilterClause(qb, time_range) ==
    LET lower == AddRangeClause(qb, "created_at", ">=", time_range.start_time)
    IN  IF time_range.end_time = None
        THEN lower
        ELSE AddRangeClause(lower.qb, "created_at", "<=", time_range.end_time)

\* add_group_by_clause(column): appends a grouping key.
AddGroupByClause(qb, column) ==
    BuilderOk([qb EXCEPT !.group_by = Append(@, column)])

\* ------------------------------------------------------------- compilation

NoQuery == [kind |-> "none"]

RenderSelect(expr) ==
    <<expr.fn, IF expr.field = None THEN "*" ELSE expr.field, "AS", expr.alias>>

RenderFilter(f) == <<f.column, f.op, f.value>>

\* The filters joined by AND, in insertion order.
JoinAnd(filters) ==
    [i \in 1..(2 * Len(filters) - 1) |->
        IF i % 2 = 1 THEN RenderFilter(filters[(i + 1) \div 2]) ELSE <<"AND">>]

\* The clauses with the group-by keys and the ordering ahead of the select
\* list.
EmitClausesAsAdded(qb) ==
    (IF Len(qb.group_by) = 0 THEN <<>>
     ELSE <<[clause |-> "GROUP BY", items |-> [i \in DOMAIN qb.group_by |-> <<qb.group_by[i]>>]],
            [clause |-> "ORDER BY", items |-> [i \in DOMAIN qb.group_by |-> <<qb.group_by[i]>>]]>>)
    \o <<[clause |-> "SELECT",
          items |-> [i \in DOMAIN qb.columns |-> RenderSelect(qb.columns[i])]]>>
    \o (IF Len(qb.filters) = 0 THEN <<>>
        ELSE <<[clause |-> "WHERE", items |-> JoinAnd(qb.filters)]>>)

\* The clauses of the compiled query in the order build_query emits them:
\* the select list; the filters, if any; the group-by keys and the ordering by
\* them, if any.
EmitClauses(qb) ==
    <<[clause |-> "SELECT",
       items |-> [i \in DOMAIN qb.columns |-> RenderSelect(qb.columns[i])]]>>
    \o (IF Len(qb.filters) = 0 THEN <<>>
        ELSE <<[clause |-> "WHERE", items |-> JoinAnd(qb.filters)]>>)
    \o (IF Len(qb.group_by) = 0 THEN <<>>
        ELSE <<[clause |-> "GROUP BY", items |-> [i \in DOMAIN qb.group_by |-> <<qb.group_by[i]>>]],
               [clause |-> "ORDER BY", items |-> [i \in DOMAIN qb.group_by |-> <<qb.group_by[i]>>]]>>)

\* build_query: select clauses, then the filters (ANDed, in insertion order),
\* then the group-by keys, then the ordering by the group-by keys.  It fails
\* when no select column was added or when a clause does not render.
BuildQuery(qb, renders) ==
    IF Len(qb.columns) = 0
    THEN [ok |-> FALSE, err |-> "NoSelectFields"]
    ELSE IF ~renders
    THEN [ok |-> FALSE, err |-> "SqlSerializeError"]
    ELSE [ok |-> TRUE,
          query |-> [kind |-> "query",
                     from |-> qb.collection,
                     select |-> [i \in DOMAIN qb.columns |-> RenderSelect(qb.columns[i])],
                     where |-> [i \in DOMAIN qb.filters |-> RenderFilter(qb.filters[i])],
                     group_by |-> qb.group_by,
                     order_by |-> qb.group_by,
                     clauses |-> EmitClauses(qb)]]

\* ------------------------------------------------------------ error kinds

\* An error_stack report: the context reported to the caller and the error
\* the report was raised with.
Failure(context, cause) == [kind |-> "err", err |-> context, cause |-> cause]

Success(set) == [kind |-> "ok", set |-> set]

NoResult == [kind |-> "none"]

\* ReportSwitchExt::switch on the error of a clause call (lines 46..86): the
\* clause's error becomes the metric's clause error.
Switch(e) == Failure("ClauseError", e)

\* Line 91 with the context of line 92.
OuterContextMislabelled == "QueryExecutionFailure"

\* change_context(MetricsError::QueryBuildingError), line 91.
OuterContext == "QueryBuildingError"

\* Line 92 with the context of line 104.
InnerContextMislabelled == "PostProcessingFailure"

\* Line 92 with the context of line 91.
InnerContextAsBuilding == "QueryBuildingError"

\* change_context(MetricsError::QueryExecutionFailure), line 92.
InnerContext == "QueryExecutionFailure"

\* change_context(MetricsError::PostProcessingFailure), line 104.
FoldContext == "PostProcessingFailure"


\* ---------------------------------------------------------- post-processing

\* AuthEventMetricsBucketIdentifier::new(time_bucket)
BucketIdentifierNew(time_bucket) == [time_bucket |-> time_bucket]

\* The closure of lines 94..99 with the identifier built from no time bucket.
MapRowDefaultBucket(i) ==
    [ok |-> TRUE, val |-> <<BucketIdentifierNew(None), i>>]

\* The closure of lines 94..99 with the time bucket taken out of the row
\* instead of cloned.
MapRowTakesBucket(i) ==
    [ok |-> TRUE, val |-> <<BucketIdentifierNew(i.time_bucket),
                            [i EXCEPT !.time_bucket = None]>>]

\* The closure of lines 94..99 failing on a row without a time bucket.
MapRowRequiresBucket(i) ==
    IF i.time_bucket = None
    THEN [ok |-> FALSE, err |-> "MissingTimeBucket"]
    ELSE [ok |-> TRUE, val |-> <<BucketIdentifierNew(i.time_bucket), i>>]

\* The closure of lines 94..99: Ok((BucketIdentifier::new(i.time_bucket), i)).
MapRow(i) ==
    [ok |-> TRUE, val |-> <<BucketIdentifierNew(i.time_bucket), i>>]

\* collect::<Result<HashSet<_>, _>>(): the pairs in row order into a set,
\* stopping at the first row whose closure fails.
RECURSIVE CollectFrom(_, _, _)
CollectFrom(rows, k, acc) ==
    IF k > Len(rows)
    THEN [ok |-> TRUE, set |-> acc]
    ELSE LET m == MapRow(rows[k])
         IN  IF ~m.ok
             THEN [ok |-> FALSE, err |-> m.err]
             ELSE CollectFrom(rows, k + 1, acc \cup {m.val})

\* A collect keyed by the bucket identifier alone, the last row of a bucket
\* replacing the earlier ones.
RECURSIVE CollectLastPerKeyFrom(_, _, _)
CollectLastPerKeyFrom(rows, k, acc) ==
    IF k > Len(rows)
    THEN [ok |-> TRUE, set |-> acc]
    ELSE LET m == MapRow(rows[k])
         IN  CollectLastPerKeyFrom(rows, k + 1,
                 {e \in acc : e[1] # m.val[1]} \cup {m.val})

CollectLastPerKey(rows) == CollectLastPerKeyFrom(rows, 1, {})

\* A collect keyed by the bucket identifier alone, the first row of a bucket
\* winning over the later ones.
RECURSIVE CollectFirstPerKeyFrom(_, _, _)
CollectFirstPerKeyFrom(rows, k, acc) ==
    IF k > Len(rows)
    THEN [ok |-> TRUE, set |-> acc]
    ELSE LET m == MapRow(rows[k])
         IN  CollectFirstPerKeyFrom(rows, k + 1,
                 IF \E e \in acc : e[1] = m.val[1] THEN acc ELSE acc \cup {m.val})

CollectFirstPerKey(rows) == CollectFirstPerKeyFrom(rows, 1, {})

\* Lines 93..103: into_iter().map(closure).collect().
CollectRows(rows) == CollectFrom(rows, 1, {})

\* A post-processing that reports an empty fold as a failure.
PostProcessEmptyIsError(rows) ==
    LET c == CollectRows(rows)
    IN  IF c.ok /\ c.set # {}
        THEN Success(c.set)
        ELSE Failure(FoldContext, "EmptyResult")

\* Lines 93..104: the fold and change_context(PostProcessingFailure).
PostProcess(rows) ==
    LET c == CollectRows(rows)
    IN  IF c.ok THEN Success(c.set) ELSE Failure(FoldContext, c.err)

\* -------------------------------------------------------------------- state

VARIABLES
    procs,      \* the metric computations the caller runs
    pc,         \* pc[p]: the statement of load_metrics computation p is at
    args,       \* args[p]: merchant_id, publishable_key, granularity, time_range
    qb,         \* qb[p]: the computation's query_builder
    compiled,   \* compiled[p]: what build_query returned inside execute_query
    sent,       \* sent[p]: the query the backend handle received
    invoked,    \* invoked[p]: backend invocations of the current call
    response,   \* response[p]: what the backend handle answered
    result,     \* result[p]: what load_metrics returned
    fresh,      \* fresh[p]: the answer was read from the backend's current state
    snapshot,   \* the backend's current state as one query observed it, and the
                \* first run of that query against it
    conv        \* the last foreign_try_from conversion: its input and output

vars == <<procs, pc, args, qb, compiled, sent, invoked, response, result,
          fresh, snapshot, conv>>

Collection == "SdkEventsAnalytics"

NoArgs == [kind |-> "none"]

NoBuild == [kind |-> "none"]

NoResponse == [kind |-> "none"]

NoSnapshot == [kind |-> "none"]

NoRun == [kind |-> "none"]

\* No conversion was made; dummy_connector: the build has that feature.
NoConversion == [kind |-> "none", dummy_connector |-> FALSE]

\* A backend written to between any two queries: nothing observed of it
\* binds a later answer.
Volatile == [kind |-> "volatile"]

Arguments ==
    [kind : {"args"}, merchant_id : MerchantIds, publishable_key : PublishableKeys,
     granularity : Granularities, time_range : TimeRanges]

\* The statements of load_metrics that touch the builder, in source order,
\* with the tenant filter after the first_event filter.
StatementOrderTenantSecond ==
    <<"add_select", "add_granularity", "filter_first_event", "filter_tenant",
      "filter_category", "filter_log_type", "filter_event_name", "filter_value",
      "time_range", "group_by", "execute">>

\* The statements of load_metrics with execute_query ahead of the group-by
\* clause.
StatementOrderExecuteEarly ==
    <<"add_select", "add_granularity", "filter_tenant", "filter_first_event",
      "filter_category", "filter_log_type", "filter_event_name", "filter_value",
      "time_range", "execute", "group_by">>

\* The statements of load_metrics that touch the builder, in source order
\* (lines 41..88).
StatementOrder ==
    <<"add_select", "add_granularity", "filter_tenant", "filter_first_event",
      "filter_category", "filter_log_type", "filter_event_name", "filter_value",
      "time_range", "group_by", "execute">>

First == StatementOrder[1]

Following(at) ==
    LET i == CHOOSE j \in DOMAIN StatementOrder : StatementOrder[j] = at
    IN  StatementOrder[i + 1]

Init ==
    /\ procs = {1}
    /\ pc = [p \in procs |-> "idle"]
    /\ args = [p \in procs |-> NoArgs]
    /\ qb = [p \in procs |-> QueryBuilderNew(Collection)]
    /\ compiled = [p \in procs |-> NoBuild]
    /\ sent = [p \in procs |-> NoQuery]
    /\ invoked = [p \in procs |-> 0]
    /\ response = [p \in procs |-> NoResponse]
    /\ result = [p \in procs |-> NoResult]
    /\ fresh = [p \in procs |-> FALSE]
    /\ snapshot = NoSnapshot
    /\ conv = NoConversion

\* ------------------------------------------------------------- load_metrics

\* `.switch()?` with the error noted but the function going on.
PropagateKeepsGoing(p, r, next) ==
    /\ pc' = [pc EXCEPT ![p] = next]
    /\ IF r.ok
       THEN /\ qb' = [qb EXCEPT ![p] = r.qb]
            /\ UNCHANGED result
       ELSE /\ result' = [result EXCEPT ![p] = Switch(r.err)]
            /\ UNCHANGED qb
    /\ UNCHANGED <<conv, procs, args, compiled, sent, invoked, response, fresh, snapshot>>

\* `.switch()?` after a clause call (lines 46, 51, 56, ..., 85): go on to
\* `next` with the changed builder, or return the switched error.
Propagate(p, r, next) ==
    /\ IF r.ok
       THEN /\ qb' = [qb EXCEPT ![p] = r.qb]
            /\ pc' = [pc EXCEPT ![p] = next]
            /\ UNCHANGED result
       ELSE /\ pc' = [pc EXCEPT ![p] = "done"]
            /\ result' = [result EXCEPT ![p] = Switch(r.err)]
            /\ UNCHANGED qb
    /\ UNCHANGED <<conv, procs, args, compiled, sent, invoked, response, fresh, snapshot>>

\* The `?` after a clause call of load_metrics: on to the following statement.
Apply(p, r) == Propagate(p, r, Following(pc[p]))

\* Lines 30..39: a call with arguments drawn from `arguments`, and
\* QueryBuilder::new(SdkEventsAnalytics).
Call(p, arguments) ==
    /\ pc[p] \in {"idle", "done"}
    /\ \E a \in arguments : args' = [args EXCEPT ![p] = a]
    /\ qb' = [qb EXCEPT ![p] = QueryBuilderNew(Collection)]
    /\ compiled' = [compiled EXCEPT ![p] = NoBuild]
    /\ sent' = [sent EXCEPT ![p] = NoQuery]
    /\ invoked' = [invoked EXCEPT ![p] = 0]
    /\ response' = [response EXCEPT ![p] = NoResponse]
    /\ result' = [result EXCEPT ![p] = NoResult]
    /\ fresh' = [fresh EXCEPT ![p] = FALSE]
    /\ pc' = [pc EXCEPT ![p] = First]
    /\ UNCHANGED <<conv, procs, snapshot>>

\* Lines 30..39: the call.
LoadMetrics(p) == Call(p, Arguments)

\* The call by callers of several merchants, over one time range.
ArgumentsOfMerchants ==
    [kind : {"args"}, merchant_id : {"m_1", "m_2"},
     publishable_key : PublishableKeys, granularity : Granularities,
     time_range : {t \in TimeRanges : t.end_time # None}]

LoadMetricsOfMerchants(p) == Call(p, ArgumentsOfMerchants)

\* Lines 41..46: add_select_column(Aggregate::Count { field: None, alias: Some("count") }).
SelectCount(p) ==
    /\ pc[p] = "add_select"
    /\ Apply(p, AddSelectColumn(qb[p],
                    [fn |-> "count", field |-> None, alias |-> "count"]))

\* Lines 48..52 with a default width in place of an absent granularity.
SelectGranularityDefaulted(p) ==
    /\ pc[p] = "add_granularity"
    /\ Apply(p, AddGranularityInMins(qb[p],
                    IF args[p].granularity # None
                    THEN args[p].granularity ELSE "G_OneHour"))

\* Lines 48..52: add_granularity_in_mins when a granularity is given.
SelectGranularity(p) ==
    /\ pc[p] = "add_granularity"
    /\ IF args[p].granularity # None
       THEN Apply(p, AddGranularityInMins(qb[p], args[p].granularity))
       ELSE Apply(p, BuilderOk(qb[p]))

\* Lines 54..56 without the call: the builder is left as it was.
TenantFilterMissing(builder, publishable_key) == BuilderOk(builder)

\* Lines 54..56: add_filter_clause("merchant_id", publishable_key).
TenantFilter(builder, publishable_key) ==
    AddFilterClause(builder, "merchant_id", publishable_key)

\* Lines 54..56 with the merchant_id argument as the value.
FilterTenantByMerchantId(p) ==
    /\ pc[p] = "filter_tenant"
    /\ Apply(p, TenantFilter(qb[p], args[p].merchant_id))

\* Lines 54..56 with the key read from a table all computations write to.
FilterTenantShared(p) ==
    /\ pc[p] = "filter_tenant"
    /\ \E o \in procs :
         /\ args[o] # NoArgs
         /\ Apply(p, TenantFilter(qb[p], args[o].publishable_key))

FilterTenant(p) ==
    /\ pc[p] = "filter_tenant"
    /\ Apply(p, TenantFilter(qb[p], args[p].publishable_key))

\* Lines 58..60: add_bool_filter_clause("first_event", 1).
FilterFirstEvent(p) ==
    /\ pc[p] = "filter_first_event"
    /\ Apply(p, AddBoolFilterClause(qb[p], "first_event", "1"))

\* Lines 62..64: add_filter_clause("category", "USER_EVENT").
FilterCategory(p) ==
    /\ pc[p] = "filter_category"
    /\ Apply(p, AddFilterClause(qb[p], "category", "USER_EVENT"))

\* Lines 66..68: add_filter_clause("log_type", "INFO").
FilterLogType(p) ==
    /\ pc[p] = "filter_log_type"
    /\ Apply(p, AddFilterClause(qb[p], "log_type", "INFO"))

\* Lines 70..72: add_filter_clause("event_name", SdkEventNames::DisplayThreeDsSdk).
FilterEventName(p) ==
    /\ pc[p] = "filter_event_name"
    /\ Apply(p, AddFilterClause(qb[p], "event_name", "DisplayThreeDsSdk"))

\* Line 74: add_filter_clause("value", "C").
FilterValue(p) ==
    /\ pc[p] = "filter_value"
    /\ Apply(p, AddFilterClause(qb[p], "value", "C"))

\* Lines 76..79: time_range.set_filter_clause(&mut query_builder).
FilterTimeRange(p) ==
    /\ pc[p] = "time_range"
    /\ Apply(p, SetFilterClause(qb[p], args[p].time_range))

\* Lines 81..86 without the call: no grouping key is added.
GroupByMissing(p) ==
    /\ pc[p] = "group_by"
    /\ Apply(p, BuilderOk(qb[p]))

\* Lines 81..86: add_group_by_clause("time_bucket") when a granularity is given.
GroupBy(p) ==
    /\ pc[p] = "group_by"
    /\ IF args[p].granularity # None
       THEN Apply(p, AddGroupByClause(qb[p], "time_bucket"))
       ELSE Apply(p, BuilderOk(qb[p]))

\* The backend's current state was observed through query q.
Observed(q) == snapshot.kind = "observed" /\ snapshot.query = q

\* Lines 88..91 with a memo of results: a query already run against the
\* backend's current state is answered from the memo, not by the backend.
ExecuteQueryCached(p) ==
    /\ pc[p] = "execute"
    /\ \E renders \in BOOLEAN :
         LET b == BuildQuery(qb[p], renders)
         IN  /\ compiled' = [compiled EXCEPT ![p] = [kind |-> "built", build |-> b]]
             /\ IF b.ok /\ Observed(b.query) /\ snapshot.first # NoRun
                THEN /\ pc' = [pc EXCEPT ![p] = "done"]
                     /\ result' = [result EXCEPT ![p] = snapshot.first.result]
                     /\ UNCHANGED <<sent, invoked>>
                ELSE IF b.ok
                THEN /\ sent' = [sent EXCEPT ![p] = b.query]
                     /\ invoked' = [invoked EXCEPT ![p] = @ + 1]
                     /\ pc' = [pc EXCEPT ![p] = "await"]
                     /\ UNCHANGED result
                ELSE /\ pc' = [pc EXCEPT ![p] = "done"]
                     /\ result' = [result EXCEPT ![p] = Failure(OuterContext, b.err)]
                     /\ UNCHANGED <<sent, invoked>>
    /\ UNCHANGED <<conv, procs, args, qb, response, fresh, snapshot>>

\* Lines 88..91: execute_query compiles the builder; a failure to compile is
\* the outer error and returns QueryBuildingError, otherwise the query goes
\* to the backend handle and the computation suspends.
ExecuteQuery(p) ==
    /\ pc[p] = "execute"
    /\ \E renders \in BOOLEAN :
         LET b == BuildQuery(qb[p], renders)
         IN  /\ compiled' = [compiled EXCEPT ![p] = [kind |-> "built", build |-> b]]
             /\ IF b.ok
                THEN /\ sent' = [sent EXCEPT ![p] = b.query]
                     /\ invoked' = [invoked EXCEPT ![p] = @ + 1]
                     /\ pc' = [pc EXCEPT ![p] = "await"]
                     /\ UNCHANGED result
                ELSE /\ pc' = [pc EXCEPT ![p] = "done"]
                     /\ result' = [result EXCEPT ![p] = Failure(OuterContext, b.err)]
                     /\ UNCHANGED <<sent, invoked>>
    /\ UNCHANGED <<conv, procs, args, qb, response, fresh, snapshot>>

\* The rows a query can bring back: a row has a time bucket only when the
\* query selects one (a column that is not selected is absent from the row
\* and deserializes to None).
SelectsTimeBucket(q) == \E i \in DOMAIN q.select : q.select[i][4] = "time_bucket"

RowsFor(q) ==
    IF SelectsTimeBucket(q)
    THEN AuthEventMetricRow
    ELSE {r \in AuthEventMetricRow : r.time_bucket = None}

\* The bound on the rows of one answer.
RowLimit == IF Cardinality(procs) > 1 THEN MaxRowsTogether ELSE MaxRows

\* What the backend may answer to query q: an error, or rows -- any rows when
\* its current state was not yet observed through q, the observed rows in any
\* order when it was.
Answers(q) ==
    {[kind |-> "err", err |-> e] : e \in BackendErrors}
    \cup {[kind |-> "rows", rows |-> s] :
            s \in {t \in SeqsUpTo(RowsFor(q), RowLimit) :
                      Observed(q) => BagOf(t) = snapshot.rows}}

\* Line 92 with the backend's error swallowed into no rows.
InnerResultOrEmpty(a) ==
    [ok |-> TRUE, rows |-> IF a.kind = "rows" THEN a.rows ELSE <<>>]

\* Line 92: change_context(QueryExecutionFailure)? on the inner result.
InnerResult(a) ==
    IF a.kind = "rows"
    THEN [ok |-> TRUE, rows |-> a.rows]
    ELSE [ok |-> FALSE, report |-> Failure(InnerContext, a.err)]

\* Lines 89..92: the backend handle answers; its error is the inner error and
\* returns QueryExecutionFailure, otherwise the rows go to the fold.
Respond(p) ==
    /\ pc[p] = "await"
    /\ \E a \in Answers(sent[p]) :
         /\ response' = [response EXCEPT ![p] = a]
         /\ IF InnerResult(a).ok
            THEN /\ pc' = [pc EXCEPT ![p] = "collect"]
                 /\ UNCHANGED result
            ELSE /\ pc' = [pc EXCEPT ![p] = "done"]
                 /\ result' = [result EXCEPT ![p] = InnerResult(a).report]
         /\ IF a.kind # "rows" \/ snapshot = Volatile
            THEN UNCHANGED <<fresh, snapshot>>
            ELSE IF Observed(sent[p])
            THEN /\ fresh' = [fresh EXCEPT ![p] = TRUE]
                 /\ UNCHANGED snapshot
            ELSE /\ fresh' = [x \in procs |-> x = p]
                 /\ snapshot' = [kind |-> "observed", query |-> sent[p],
                                 rows |-> BagOf(a.rows), first |-> NoRun]
    /\ UNCHANGED <<conv, procs, args, qb, compiled, sent, invoked>>

\* Lines 93..104: the fold of the rows into the set load_metrics returns.
Collect(p) ==
    /\ pc[p] = "collect"
    /\ LET rows == InnerResult(response[p]).rows
           r == PostProcess(rows)
       IN  /\ result' = [result EXCEPT ![p] = r]
           /\ snapshot' = IF fresh[p] /\ snapshot.first = NoRun
                          THEN [snapshot EXCEPT !.first =
                                   [kind |-> "run", rows |-> rows, result |-> r]]
                          ELSE snapshot
    /\ pc' = [pc EXCEPT ![p] = "done"]
    /\ UNCHANGED <<conv, procs, args, qb, compiled, sent, invoked, response, fresh>>

\* The backend's data changes (events are ingested): what was observed of it
\* no longer binds its answers.
BackendWrite ==
    /\ snapshot.kind = "observed"
    /\ snapshot' = NoSnapshot
    /\ fresh' = [p \in procs |-> FALSE]
    /\ UNCHANGED <<conv, procs, pc, args, qb, compiled, sent, invoked, response, result>>

Next ==
    \/ \E p \in procs : LoadMetrics(p)
    \/ \E p \in procs : SelectCount(p)
    \/ \E p \in procs : SelectGranularity(p)
    \/ \E p \in procs : FilterTenant(p)
    \/ \E p \in procs : FilterFirstEvent(p)
    \/ \E p \in procs : FilterCategory(p)
    \/ \E p \in procs : FilterLogType(p)
    \/ \E p \in procs : FilterEventName(p)
    \/ \E p \in procs : FilterValue(p)
    \/ \E p \in procs : FilterTimeRange(p)
    \/ \E p \in procs : GroupBy(p)
    \/ \E p \in procs : ExecuteQuery(p)
    \/ \E p \in procs : Respond(p)
    \/ \E p \in procs : Collect(p)
    \/ BackendWrite

Spec == Init /\ [][Next]_vars

\* ------------------------------------------------- concurrent computations

\* Two computations awaited together on one backend handle (&AnalyticsProvider,
\* line 35), the backend's data changing freely between their queries.
InitConc ==
    /\ procs = {1, 2}
    /\ pc = [p \in procs |-> "idle"]
    /\ args = [p \in procs |-> NoArgs]
    /\ qb = [p \in procs |-> QueryBuilderNew(Collection)]
    /\ compiled = [p \in procs |-> NoBuild]
    /\ sent = [p \in procs |-> NoQuery]
    /\ invoked = [p \in procs |-> 0]
    /\ response = [p \in procs |-> NoResponse]
    /\ result = [p \in procs |-> NoResult]
    /\ fresh = [p \in procs |-> FALSE]
    /\ snapshot = Volatile
    /\ conv = NoConversion

NextConc ==
    \/ \E p \in procs : LoadMetrics(p)
    \/ \E p \in procs : SelectCount(p)
    \/ \E p \in procs : SelectGranularity(p)
    \/ \E p \in procs : FilterTenant(p)
    \/ \E p \in procs : FilterFirstEvent(p)
    \/ \E p \in procs : FilterCategory(p)
    \/ \E p \in procs : FilterLogType(p)
    \/ \E p \in procs : FilterEventName(p)
    \/ \E p \in procs : FilterValue(p)
    \/ \E p \in procs : FilterTimeRange(p)
    \/ \E p \in procs : GroupBy(p)
    \/ \E p \in procs : ExecuteQuery(p)
    \/ \E p \in procs : Respond(p)
    \/ \E p \in procs : Collect(p)

SpecConc == InitConc /\ [][NextConc]_vars

\* Two computations called for any merchant.
NextMerchants ==
    \/ \E p \in procs : LoadMetricsOfMerchants(p)
    \/ \E p \in procs : SelectCount(p)
    \/ \E p \in procs : SelectGranularity(p)
    \/ \E p \in procs : FilterTenant(p)
    \/ \E p \in procs : FilterFirstEvent(p)
    \/ \E p \in procs : FilterCategory(p)
    \/ \E p \in procs : FilterLogType(p)
    \/ \E p \in procs : FilterEventName(p)
    \/ \E p \in procs : FilterValue(p)
    \/ \E p \in procs : FilterTimeRange(p)
    \/ \E p \in procs : GroupBy(p)
    \/ \E p \in procs : ExecuteQuery(p)
    \/ \E p \in procs : Respond(p)
    \/ \E p \in procs : Collect(p)

SpecMerchants == InitConc /\ [][NextMerchants]_vars

\* ------------------------------------------- a generic client of the builder

\* The select expressions and filter columns a metric definition may ask for.
ClientSelects ==
    {[fn |-> "count", field |-> None, alias |-> "count"],
     [fn |-> "sum", field |-> "amount", alias |-> "total"]}

ClientColumns == {"", "merchant_id"}

\* The `?` after a clause call of the client: it keeps building, or returns
\* the switched error.
ApplyClient(p, r) == Propagate(p, r, "client")

\* QueryBuilder::new(collection) in a metric definition.
ClientNew(p) ==
    /\ pc[p] \in {"idle", "done"}
    /\ qb' = [qb EXCEPT ![p] = QueryBuilderNew(Collection)]
    /\ compiled' = [compiled EXCEPT ![p] = NoBuild]
    /\ sent' = [sent EXCEPT ![p] = NoQuery]
    /\ invoked' = [invoked EXCEPT ![p] = 0]
    /\ response' = [response EXCEPT ![p] = NoResponse]
    /\ result' = [result EXCEPT ![p] = NoResult]
    /\ pc' = [pc EXCEPT ![p] = "client"]
    /\ UNCHANGED <<conv, procs, args, fresh, snapshot>>

ClientAddSelect(p) ==
    /\ pc[p] = "client"
    /\ Len(qb[p].columns) < MaxClauses
    /\ \E expr \in ClientSelects : ApplyClient(p, AddSelectColumn(qb[p], expr))

ClientAddGranularity(p) ==
    /\ pc[p] = "client"
    /\ Len(qb[p].columns) < MaxClauses
    /\ \E g \in Granularities \ {None} :
         ApplyClient(p, AddGranularityInMins(qb[p], g))

ClientAddFilter(p) ==
    /\ pc[p] = "client"
    /\ Len(qb[p].filters) < MaxClauses
    /\ \E column \in ClientColumns :
         ApplyClient(p, AddFilterClause(qb[p], column, "pk_a"))

ClientAddBoolFilter(p) ==
    /\ pc[p] = "client"
    /\ Len(qb[p].filters) < MaxClauses
    /\ ApplyClient(p, AddBoolFilterClause(qb[p], "first_event", "1"))

ClientAddGroupBy(p) ==
    /\ pc[p] = "client"
    /\ Len(qb[p].group_by) < MaxClauses
    /\ ApplyClient(p, AddGroupByClause(qb[p], "time_bucket"))

\* The client's builder goes through lines 88..104 as load_metrics' does.
ClientExecute(p) ==
    /\ pc[p] = "client"
    /\ pc' = [pc EXCEPT ![p] = "execute"]
    /\ UNCHANGED <<conv, procs, args, qb, compiled, sent, invoked, response, result,
                   fresh, snapshot>>

InitEngine ==
    /\ procs = {1}
    /\ pc = [p \in procs |-> "idle"]
    /\ args = [p \in procs |-> NoArgs]
    /\ qb = [p \in procs |-> QueryBuilderNew(Collection)]
    /\ compiled = [p \in procs |-> NoBuild]
    /\ sent = [p \in procs |-> NoQuery]
    /\ invoked = [p \in procs |-> 0]
    /\ response = [p \in procs |-> NoResponse]
    /\ result = [p \in procs |-> NoResult]
    /\ fresh = [p \in procs |-> FALSE]
    /\ snapshot = Volatile
    /\ conv = NoConversion

NextEngine ==
    \/ \E p \in procs : ClientNew(p)
    \/ \E p \in procs : ClientAddSelect(p)
    \/ \E p \in procs : ClientAddGranularity(p)
    \/ \E p \in procs : ClientAddFilter(p)
    \/ \E p \in procs : ClientAddBoolFilter(p)
    \/ \E p \in procs : ClientAddGroupBy(p)
    \/ \E p \in procs : ClientExecute(p)
    \/ \E p \in procs : ExecuteQuery(p)
    \/ \E p \in procs : Respond(p)
    \/ \E p \in procs : Collect(p)

SpecEngine == InitEngine /\ [][NextEngine]_vars

\* ------------------------------------------------------------------ claims

TenantClause(p) ==
    [column |-> "merchant_id", op |-> "=", value |-> args[p].publishable_key]

TenantClauses(p) ==
    {i \in DOMAIN qb[p].filters : qb[p].filters[i].column = "merchant_id"}

\* C1: in every load_metrics call exactly one filter scoping the query to the
\* caller's tenant is added to the builder, and it is the first filter: as
\* soon as the builder holds any filter its first one is the tenant filter,
\* there is never a second one, and the builder that reaches execute_query
\* holds it.
C1_TenantFilterFirstAndOnce ==
    \A p \in procs :
        /\ Len(qb[p].filters) > 0 => qb[p].filters[1] = TenantClause(p)
        /\ Cardinality(TenantClauses(p)) <= 1
        /\ (pc[p] \in {"execute", "await", "collect"} \/ compiled[p].kind = "built")
              => Cardinality(TenantClauses(p)) = 1

C1_Witness ==
    \E p \in procs :
        /\ pc[p] = "execute"
        /\ args[p].granularity # None
        /\ args[p].time_range.end_time # None
        /\ Len(qb[p].filters) = 8
        /\ qb[p].filters[1] = TenantClause(p)

\* C2: whenever load_metrics, given tenant X, reaches compilation, the builder
\* holds the filter on X and the compiled query's rendered filter list holds
\* its rendering; the backend is never invoked with a query lacking it.
C2_TenantFilterInCompiledQuery ==
    \A p \in procs :
        /\ compiled[p].kind = "built" => TenantClause(p) \in Range(qb[p].filters)
        /\ (compiled[p].kind = "built" /\ compiled[p].build.ok)
              => RenderFilter(TenantClause(p)) \in Range(compiled[p].build.query.where)
        /\ invoked[p] > 0
              => /\ sent[p].kind = "query"
                 /\ RenderFilter(TenantClause(p)) \in Range(sent[p].where)

C2_Witness ==
    \E p \in procs :
        /\ invoked[p] = 1
        /\ response[p].kind = "rows"
        /\ args[p].publishable_key = "pk_b"
        /\ <<"merchant_id", "=", "pk_b">> \in Range(sent[p].where)

\* C3: compiling a builder to which no select column was ever added fails,
\* the call returns QueryBuildingError, and the backend handle is never
\* invoked: it received no query and gave no answer.
C3_NoSelectFailsBeforeExecution ==
    \A p \in procs :
        (compiled[p].kind = "built" /\ Len(qb[p].columns) = 0)
           => /\ ~compiled[p].build.ok
              /\ pc[p] = "done"
              /\ result[p] = Failure("QueryBuildingError", "NoSelectFields")
              /\ invoked[p] = 0
              /\ sent[p] = NoQuery
              /\ response[p] = NoResponse

C3_Witness ==
    \E p \in procs :
        /\ compiled[p].kind = "built"
        /\ Len(qb[p].columns) = 0
        /\ Len(qb[p].filters) > 0
        /\ result[p].kind = "err"
        /\ result[p].err = "QueryBuildingError"
        /\ invoked[p] = 0

\* C4: whenever the backend handle reports an error (transport, timeout or
\* cancellation, permission, rejected query), load_metrics returns
\* QueryExecutionFailure carrying that error: no other error kind and no
\* successful result.
C4_BackendErrorIsExecutionFailure ==
    \A p \in procs :
        response[p].kind = "err"
           => /\ pc[p] = "done"
              /\ result[p] = Failure("QueryExecutionFailure", response[p].err)

C4_Witness ==
    \E p \in procs :
        /\ response[p] = [kind |-> "err", err |-> "Timeout"]
        /\ invoked[p] = 1
        /\ result[p].kind = "err"
        /\ result[p].err = "QueryExecutionFailure"

BuildFailed(p) == compiled[p].kind = "built" /\ ~compiled[p].build.ok

BackendFailed(p) == response[p].kind = "err"

FoldFailed(p) ==
    /\ response[p].kind = "rows"
    /\ \E i \in DOMAIN response[p].rows : ~MapRow(response[p].rows[i]).ok

Reported(p, kind) == result[p].kind = "err" /\ result[p].err = kind

\* C5: each failure kind comes from exactly one stage and keeps its label: a
\* returned call reports QueryBuildingError exactly when compilation failed,
\* QueryExecutionFailure exactly when the backend failed, and
\* PostProcessingFailure exactly when the fold failed; the stages run in that
\* order, so the kind reported is that of the first stage that failed, and
\* the report still carries that stage's own error.
C5_KindOfFirstFailedStage ==
    \A p \in procs :
        pc[p] = "done"
           => /\ Reported(p, "QueryBuildingError") <=> BuildFailed(p)
              /\ Reported(p, "QueryExecutionFailure") <=> BackendFailed(p)
              /\ Reported(p, "PostProcessingFailure") <=> FoldFailed(p)
              /\ BuildFailed(p) => /\ response[p] = NoResponse
                                   /\ result[p].cause = compiled[p].build.err
              /\ BackendFailed(p) => /\ compiled[p].build.ok
                                     /\ result[p].cause = response[p].err
              /\ result[p].kind = "ok" <=>
                    ~(BuildFailed(p) \/ BackendFailed(p) \/ FoldFailed(p))

C5_Witness ==
    \E p \in procs :
        /\ pc[p] = "done"
        /\ compiled[p].kind = "built"
        /\ compiled[p].build.ok
        /\ response[p] = [kind |-> "err", err |-> "Transport"]
        /\ Reported(p, "QueryExecutionFailure")

C5_WitnessBuild ==
    \E p \in procs :
        /\ pc[p] = "done"
        /\ BuildFailed(p)
        /\ Reported(p, "QueryBuildingError")

\* A returned row could not be deserialized into AuthEventMetricRow, or its
\* bucket identifier could not be derived.
RowFailed(p) ==
    \/ response[p] = [kind |-> "err", err |-> "RowDeserialization"]
    \/ FoldFailed(p)

PairOf(row) == <<BucketIdentifierNew(row.time_bucket), row>>

PairForEveryRow(p) ==
    /\ response[p].kind = "rows"
    /\ result[p].kind = "ok"
    /\ result[p].set = {PairOf(response[p].rows[i]) : i \in DOMAIN response[p].rows}

BucketKeys(rows) == {rows[i].time_bucket : i \in DOMAIN rows}

DistinctBucketKeys(rows) ==
    \A i, j \in DOMAIN rows : i # j => rows[i].time_bucket # rows[j].time_bucket

\* C7: for a non-empty sequence of returned rows with pairwise distinct bucket
\* keys, the result has as many entries as rows were returned, and every
\* bucket key occurs in exactly one entry, with no other key.
C7_DistinctBucketsKeepEveryRow ==
    \A p \in procs :
        (/\ pc[p] = "done"
         /\ response[p].kind = "rows"
         /\ Len(response[p].rows) > 0
         /\ DistinctBucketKeys(response[p].rows))
           => /\ result[p].kind = "ok"
              /\ Cardinality(result[p].set) = Len(response[p].rows)
              /\ \A b \in BucketKeys(response[p].rows) :
                    Cardinality({e \in result[p].set :
                                    e[1] = BucketIdentifierNew(b)}) = 1
              /\ \A e \in result[p].set :
                    \E b \in BucketKeys(response[p].rows) : e[1] = BucketIdentifierNew(b)

C7_Witness ==
    \E p \in procs :
        /\ pc[p] = "done"
        /\ response[p].kind = "rows"
        /\ Len(response[p].rows) = 2
        /\ DistinctBucketKeys(response[p].rows)
        /\ \A i \in DOMAIN response[p].rows : response[p].rows[i].count = 1
        /\ args[p].granularity # None
        /\ result[p].kind = "ok"
        /\ Cardinality(result[p].set) = 2

\* C8: the result is keyed by the whole (identifier, row) pair: rows of one
\* bucket key with different payloads are all in the result, under that one
\* identifier, and equal rows are one entry, so the result has as many
\* entries as there are different rows.
C8_CompositeKey ==
    \A p \in procs :
        (pc[p] = "done" /\ response[p].kind = "rows")
           => /\ result[p].kind = "ok"
              /\ \A i, j \in DOMAIN response[p].rows :
                    (/\ response[p].rows[i].time_bucket = response[p].rows[j].time_bucket
                     /\ response[p].rows[i] # response[p].rows[j])
                       => /\ PairOf(response[p].rows[i]) \in result[p].set
                          /\ PairOf(response[p].rows[j]) \in result[p].set
                          /\ PairOf(response[p].rows[i]) # PairOf(response[p].rows[j])
              /\ Cardinality(result[p].set) = Cardinality(Range(response[p].rows))

C8_Witness ==
    \E p \in procs :
        /\ pc[p] = "done"
        /\ response[p].kind = "rows"
        /\ Len(response[p].rows) = 2
        /\ response[p].rows[1].time_bucket = response[p].rows[2].time_bucket
        /\ response[p].rows[1].count # response[p].rows[2].count
        /\ result[p].kind = "ok"
        /\ Cardinality(result[p].set) = 2

C8_WitnessCollapse ==
    \E p \in procs :
        /\ pc[p] = "done"
        /\ response[p].kind = "rows"
        /\ Len(response[p].rows) = 2
        /\ response[p].rows[1] = response[p].rows[2]
        /\ result[p].kind = "ok"
        /\ Cardinality(result[p].set) = 1

\* A computation whose rows were read from the backend state that the first
\* run of the same query observed.
RunAgain(p) ==
    /\ pc[p] = "done"
    /\ fresh[p]
    /\ snapshot.kind = "observed"
    /\ snapshot.first # NoRun
    /\ snapshot.query = sent[p]
    /\ response[p].kind = "rows"

\* C9: running the same compiled query again against an unchanged backend
\* gives a result equal, as a set, to the first run's, in whatever order the
\* backend returns the rows.
C9_SameQuerySameResult ==
    \A p \in procs :
        RunAgain(p) => result[p] = snapshot.first.result

C9_Witness ==
    \E p \in procs :
        /\ RunAgain(p)
        /\ Len(response[p].rows) = 2
        /\ response[p].rows # snapshot.first.rows
        /\ response[p].rows[1].time_bucket = response[p].rows[2].time_bucket
        /\ result[p].kind = "ok"
        /\ result[p] = snapshot.first.result

\* C10: when the backend executes the query and returns no row, load_metrics
\* returns success with the empty set, not an error.
C10_NoRowsIsEmptySuccess ==
    \A p \in procs :
        (pc[p] = "done" /\ response[p].kind = "rows" /\ Len(response[p].rows) = 0)
           => result[p] = Success({})

C10_Witness ==
    \E p \in procs :
        /\ pc[p] = "done"
        /\ invoked[p] = 1
        /\ response[p] = [kind |-> "rows", rows |-> <<>>]
        /\ result[p] = Success({})

\* C11: when no granularity is given and the backend returns a single row,
\* the result has exactly one entry, and its identifier is the one built from
\* an absent time bucket, whatever the time range and the row's count.
C11_UnbucketedRowHasDefaultIdentifier ==
    \A p \in procs :
        (/\ pc[p] = "done"
         /\ args[p].granularity = None
         /\ response[p].kind = "rows"
         /\ Len(response[p].rows) = 1)
           => /\ result[p].kind = "ok"
              /\ Cardinality(result[p].set) = 1
              /\ \A e \in result[p].set :
                    /\ e[1] = BucketIdentifierNew(None)
                    /\ e[2] = response[p].rows[1]

C11_Witness ==
    \E p \in procs :
        /\ pc[p] = "done"
        /\ args[p].granularity = None
        /\ args[p].time_range.end_time = "T+60"
        /\ response[p].kind = "rows"
        /\ Len(response[p].rows) = 1
        /\ response[p].rows[1].count = 7
        /\ result[p] = Success({<<BucketIdentifierNew(None), response[p].rows[1]>>})

WellFormed(builder) ==
    /\ \A i, j \in DOMAIN builder.columns :
          (i # j /\ builder.columns[i].alias # None)
             => builder.columns[i].alias # builder.columns[j].alias
    /\ \A i \in DOMAIN builder.filters : builder.filters[i].column # ""

ClauseErrorReturned(p) ==
    /\ pc[p] = "done"
    /\ result[p].cause \in {"DuplicateAlias", "EmptyColumnName"}
    /\ compiled[p] = NoBuild
    /\ invoked[p] = 0
    /\ sent[p] = NoQuery
    /\ response[p] = NoResponse

\* C12: a malformed clause (an alias selected twice, an empty filter column)
\* is reported as ClauseError at the call that adds it: the clause is not
\* added, the metric definition returns from that call with ClauseError (the
\* only way it returns while still building), nothing is added to the builder
\* afterwards, compilation is not started and the backend is not invoked.
C12_ClauseErrorAtTheCall ==
    /\ [](\A p \in procs :
             /\ WellFormed(qb[p])
             /\ Reported(p, "ClauseError") => ClauseErrorReturned(p))
    /\ [][\A p \in procs :
             /\ (pc[p] = "client" /\ pc'[p] = "done")
                   => /\ result'[p].kind = "err"
                      /\ result'[p].err = "ClauseError"
                      /\ qb'[p] = qb[p]
             /\ (Reported(p, "ClauseError") /\ pc'[p] # "client")
                   => /\ qb'[p] = qb[p]
                      /\ result'[p] = result[p]
                      /\ pc'[p] = "done"]_vars

C12_Witness ==
    \E p \in procs :
        /\ pc[p] = "done"
        /\ result[p] = Failure("ClauseError", "DuplicateAlias")
        /\ Len(qb[p].columns) = 1
        /\ Len(qb[p].filters) > 0
        /\ invoked[p] = 0

C12_WitnessEmptyColumn ==
    \E p \in procs :
        /\ pc[p] = "done"
        /\ result[p] = Failure("ClauseError", "EmptyColumnName")
        /\ invoked[p] = 0

\* C13: no retry and no cache.  In one call the backend handle is invoked at
\* most once, and exactly once when compilation succeeded: it gives one answer
\* per invocation, a failed invocation is not repeated, and every call that
\* returns a set compiled its query and had it answered by the backend in
\* that call -- also a call repeating the arguments of the one before it.
C13_NoRetryNoCache ==
    \A p \in procs :
        /\ invoked[p] \in {0, 1}
        /\ (compiled[p].kind = "built" /\ compiled[p].build.ok) <=> invoked[p] = 1
        /\ response[p] # NoResponse => invoked[p] = 1
        /\ pc[p] = "await" => (invoked[p] = 1 /\ response[p] = NoResponse)
        /\ (pc[p] = "done" /\ BackendFailed(p))
              => (invoked[p] = 1 /\ result[p].kind = "err")
        /\ (pc[p] = "done" /\ result[p].kind = "ok")
              => /\ invoked[p] = 1
                 /\ compiled[p].kind = "built"
                 /\ sent[p] = compiled[p].build.query
                 /\ response[p].kind = "rows"

C13_Witness ==
    \E p \in procs :
        /\ RunAgain(p)
        /\ response[p].rows # snapshot.first.rows
        /\ result[p] = snapshot.first.result
        /\ compiled[p].kind = "built"
        /\ compiled[p].build.ok
        /\ invoked[p] = 1

C13_WitnessFailedOnce ==
    \E p \in procs :
        /\ pc[p] = "done"
        /\ BackendFailed(p)
        /\ invoked[p] = 1

\* The columns of the filter clauses load_metrics adds for arguments a, in
\* the order of lines 54..79.
FilterColumnsOf(a) ==
    <<"merchant_id", "first_event", "category", "log_type", "event_name",
      "value", "created_at">>
    \o (IF a.time_range.end_time = None THEN <<>> ELSE <<"created_at">>)

\* Every clause of load_metrics was added to the builder.
EveryClauseAdded(p) ==
    /\ Len(qb[p].columns) = IF args[p].granularity = None THEN 1 ELSE 2
    /\ [i \in DOMAIN qb[p].filters |-> qb[p].filters[i].column]
          = FilterColumnsOf(args[p])
    /\ qb[p].group_by
          = IF args[p].granularity = None THEN <<>> ELSE <<"time_bucket">>

\* C14: the stages run in the order build, execute, post-process.  While the
\* clauses are added and the query is compiled the backend was neither called
\* nor has it answered; it is called only with the compiled query of the
\* complete builder; the fold starts, and a set is returned, only after the
\* backend answered that call with rows.
C14_BuildExecutePostProcess ==
    \A p \in procs :
        /\ pc[p] \in Range(StatementOrder)
              => /\ invoked[p] = 0
                 /\ sent[p] = NoQuery
                 /\ response[p] = NoResponse
                 /\ compiled[p] = NoBuild
        /\ compiled[p] # NoBuild => invoked[p] = 0 \/ compiled[p].build.ok
        /\ invoked[p] > 0
              => /\ EveryClauseAdded(p)
                 /\ compiled[p].kind = "built"
                 /\ compiled[p] = [kind |-> "built", build |-> BuildQuery(qb[p], TRUE)]
                 /\ sent[p] = compiled[p].build.query
        /\ (pc[p] = "collect" \/ (pc[p] = "done" /\ result[p].kind = "ok"))
              => /\ invoked[p] = 1
                 /\ response[p].kind = "rows"
        /\ response[p] # NoResponse => pc[p] \in {"collect", "done"}

C14_Witness ==
    \E p \in procs :
        /\ pc[p] = "collect"
        /\ args[p].granularity # None
        /\ args[p].time_range.end_time # None
        /\ EveryClauseAdded(p)
        /\ invoked[p] = 1
        /\ Len(response[p].rows) > 0

\* The builder load_metrics hands to execute_query when it runs alone with
\* arguments a: lines 38..86 in sequence.
AloneBuilder(a) ==
    LET b0 == QueryBuilderNew(Collection)
        b1 == AddSelectColumn(b0, [fn |-> "count", field |-> None,
                                   alias |-> "count"]).qb
        b2 == IF a.granularity # None
              THEN AddGranularityInMins(b1, a.granularity).qb ELSE b1
        b3 == TenantFilter(b2, a.publishable_key).qb
        b4 == AddBoolFilterClause(b3, "first_event", "1").qb
        b5 == AddFilterClause(b4, "category", "USER_EVENT").qb
        b6 == AddFilterClause(b5, "log_type", "INFO").qb
        b7 == AddFilterClause(b6, "event_name", "DisplayThreeDsSdk").qb
        b8 == AddFilterClause(b7, "value", "C").qb
        b9 == SetFilterClause(b8, a.time_range).qb
    IN  IF a.granularity # None
        THEN AddGroupByClause(b9, "time_bucket").qb ELSE b9

\* What load_metrics returns alone for a compilation outcome and a backend
\* answer: lines 88..104 in sequence.
AloneResult(build, answer) ==
    IF ~build.ok THEN Failure(OuterContext, build.err)
    ELSE IF ~InnerResult(answer).ok THEN InnerResult(answer).report
    ELSE PostProcess(InnerResult(answer).rows)

\* The part of the state computation p owns.
Own(p) == <<pc[p], args[p], qb[p], compiled[p], sent[p], invoked[p],
            response[p], result[p]>>

\* C15: concurrent computations share no mutable state.  Under every
\* interleaving a computation hands execute_query the builder it would build
\* alone from its own arguments, sends the query compiled from it, and returns
\* what it would return alone for its own compilation outcome and its own
\* backend answer; and a step of one computation changes nothing another owns.
C15_ConcurrentAsAlone ==
    /\ [](\A p \in procs :
             /\ pc[p] \in {"execute", "await", "collect"}
                   => qb[p] = AloneBuilder(args[p])
             /\ compiled[p] # NoBuild
                   => /\ qb[p] = AloneBuilder(args[p])
                      /\ \E renders \in BOOLEAN :
                            compiled[p].build = BuildQuery(AloneBuilder(args[p]), renders)
             /\ sent[p] # NoQuery
                   => sent[p] = BuildQuery(AloneBuilder(args[p]), TRUE).query
             /\ (pc[p] = "done" /\ compiled[p] # NoBuild)
                   => \/ /\ ~compiled[p].build.ok
                         /\ response[p] = NoResponse
                         /\ result[p] = Failure(OuterContext, compiled[p].build.err)
                      \/ /\ compiled[p].build.ok
                         /\ response[p] # NoResponse
                         /\ result[p] = AloneResult(compiled[p].build, response[p]))
    /\ [][\A p, o \in procs : (p # o /\ Own(p)' # Own(p)) => Own(o)' = Own(o)]_vars

C15_Witness ==
    /\ Cardinality(procs) > 1
    /\ \E p, o \in procs :
         /\ p # o
         /\ args[p] # NoArgs /\ args[o] # NoArgs
         /\ args[p].publishable_key # args[o].publishable_key
         /\ args[p].granularity # args[o].granularity
         /\ pc[p] = "done" /\ pc[o] = "await"
         /\ result[p].kind = "ok"
         /\ result[p].set # {}
         /\ sent[p] # sent[o]

\* The rendered time-bucketing select expression of width g.
TimeBucketSelect(g) ==
    RenderSelect([fn |-> "time_bucket", field |-> g, alias |-> "time_bucket"])

\* The select expressions of query q that bucket by time.
TimeBucketSelects(q) ==
    {i \in DOMAIN q.select : q.select[i][1] = "time_bucket"
                                \/ q.select[i][4] = "time_bucket"}

\* C16: the time-bucket expression is in the compiled query exactly when a
\* granularity is given.  With a granularity the query selects the bucketing
\* expression of that width once and groups by it; without one it selects
\* only the count and has no group-by clause.
C16_TimeBucketIffGranularity ==
    \A p \in procs :
        (compiled[p] # NoBuild /\ compiled[p].build.ok)
           => LET q == compiled[p].build.query
                  g == args[p].granularity
              IN  /\ (g # None) <=> (TimeBucketSelects(q) # {})
                  /\ (g # None) <=> (q.group_by # <<>>)
                  /\ g # None
                        => /\ Cardinality(TimeBucketSelects(q)) = 1
                           /\ \A i \in TimeBucketSelects(q) :
                                 q.select[i] = TimeBucketSelect(g)
                           /\ q.group_by = <<"time_bucket">>
                  /\ g = None
                        => /\ q.select = <<RenderSelect([fn |-> "count", field |-> None,
                                                         alias |-> "count"])>>
                           /\ q.group_by = <<>>

C16_Witness ==
    \E p \in procs :
        /\ compiled[p] # NoBuild
        /\ compiled[p].build.ok
        /\ args[p].granularity # None
        /\ sent[p] = compiled[p].build.query
        /\ sent[p].group_by = <<"time_bucket">>

C16_WitnessUnbucketed ==
    \E p \in procs :
        /\ compiled[p] # NoBuild
        /\ compiled[p].build.ok
        /\ args[p].granularity = None
        /\ sent[p] = compiled[p].build.query
        /\ sent[p].group_by = <<>>

\* The place of each clause in the compiled query.
ClauseRank(name) ==
    CASE name = "SELECT" -> 1
      [] name = "WHERE" -> 2
      [] name = "GROUP BY" -> 3
      [] name = "ORDER BY" -> 4

\* The clause of query q called name, or no clause.
ClauseNamed(q, name) ==
    {q.clauses[i] : i \in {j \in DOMAIN q.clauses : q.clauses[j].clause = name}}

\* C17: compilation emits the accumulated clauses in one fixed order.  In
\* every compiled query the clauses stand in the order SELECT, WHERE, GROUP
\* BY, ORDER BY, each at most once; the select list and the filters are in
\* insertion order, the filters joined by AND; and the query is ordered by the
\* group-by keys exactly when it has a group-by clause.
C17_FixedClauseOrder ==
    \A p \in procs :
        (compiled[p] # NoBuild /\ compiled[p].build.ok)
           => LET q == compiled[p].build.query
                  c == q.clauses
              IN  /\ \A i, j \in DOMAIN c :
                        i < j => ClauseRank(c[i].clause) < ClauseRank(c[j].clause)
                  /\ c[1].clause = "SELECT"
                  /\ c[1].items = [i \in DOMAIN qb[p].columns |->
                                      RenderSelect(qb[p].columns[i])]
                  /\ (ClauseNamed(q, "WHERE") # {}) <=> (Len(qb[p].filters) > 0)
                  /\ \A w \in ClauseNamed(q, "WHERE") :
                        /\ Len(w.items) = 2 * Len(qb[p].filters) - 1
                        /\ \A i \in DOMAIN qb[p].filters :
                              w.items[2 * i - 1] = RenderFilter(qb[p].filters[i])
                        /\ \A i \in DOMAIN w.items :
                              i % 2 = 0 => w.items[i] = <<"AND">>
                  /\ (ClauseNamed(q, "GROUP BY") # {}) <=> (Len(qb[p].group_by) > 0)
                  /\ (ClauseNamed(q, "ORDER BY") # {}) <=> (ClauseNamed(q, "GROUP BY") # {})
                  /\ \A g \in ClauseNamed(q, "GROUP BY") :
                        /\ g.items = [i \in DOMAIN qb[p].group_by |-> <<qb[p].group_by[i]>>]
                        /\ \A o \in ClauseNamed(q, "ORDER BY") : o.items = g.items

C17_Witness ==
    \E p \in procs :
        /\ compiled[p] # NoBuild
        /\ compiled[p].build.ok
        /\ args[p] = NoArgs
        /\ Len(qb[p].columns) > 1
        /\ Len(qb[p].filters) > 1
        /\ Len(qb[p].group_by) > 0
        /\ Len(compiled[p].build.query.clauses) = 4

\* A client that added its filters and its group-by key before any select
\* expression.
C17_WitnessFiltersFirst ==
    \E p \in procs :
        /\ pc[p] = "client"
        /\ Len(qb[p].columns) = 0
        /\ Len(qb[p].filters) > 0
        /\ Len(qb[p].group_by) > 0

\* ------------------------------------------------ transformers.rs: enums

\* storage_enums::AttemptStatus, the variants the match of lines 149..179 names.
AttemptStatus ==
    {"Charged", "PartialCharged", "Pending", "CaptureInitiated", "Failure",
     "CaptureFailed", "Started", "AuthenticationFailed", "RouterDeclined",
     "AuthenticationPending", "AuthenticationSuccessful", "Authorized",
     "AuthorizationFailed", "Authorizing", "CodInitiated", "Voided",
     "VoidInitiated", "VoidFailed", "AutoRefunded", "Unresolved",
     "PaymentMethodAwaited", "ConfirmationAwaited",
     "DeviceDataCollectionPending", "PartialChargedAndChargeable"}

\* storage_enums::CaptureStatus, the variants lines 151..155 produce.
CaptureStatus == {"Charged", "Pending", "Failed"}

\* A value of an enum type.
Variant(enum, name) == [enum |-> enum, variant |-> name]

\* The result of a conversion.
Ok(value) == [ok |-> TRUE, value |-> value]

Err(error) == [ok |-> FALSE, err |-> error]

\* Lines 212..359: the arms `Connector::X => Self::Y` compiled in every build,
\* as pairs <<X, Y>>.
RoutableArms ==
    {
     <<"Aci", "Aci">>, <<"Adyen", "Adyen">>, <<"Adyenplatform",
     "Adyenplatform">>, <<"Airwallex", "Airwallex">>, <<"Archipel",
     "Archipel">>, <<"Authorizedotnet", "Authorizedotnet">>, <<"Bambora",
     "Bambora">>, <<"Bamboraapac", "Bamboraapac">>, <<"Bankofamerica",
     "Bankofamerica">>, <<"Barclaycard", "Barclaycard">>, <<"Billwerk",
     "Billwerk">>, <<"Bitpay", "Bitpay">>, <<"Bluesnap", "Bluesnap">>,
     <<"Boku", "Boku">>, <<"Braintree", "Braintree">>, <<"Cashtocode",
     "Cashtocode">>, <<"Chargebee", "Chargebee">>, <<"Checkout",
     "Checkout">>, <<"Coinbase", "Coinbase">>, <<"Coingate", "Coingate">>,
     <<"Cryptopay", "Cryptopay">>, <<"Cybersource", "Cybersource">>,
     <<"Datatrans", "Datatrans">>, <<"Deutschebank", "Deutschebank">>,
     <<"Digitalvirgo", "Digitalvirgo">>, <<"Dlocal", "Dlocal">>, <<"Ebanx",
     "Ebanx">>, <<"Elavon", "Elavon">>, <<"Facilitapay", "Facilitapay">>,
     <<"Fiserv", "Fiserv">>, <<"Fiservemea", "Fiservemea">>, <<"Fiuu",
     "Fiuu">>, <<"Forte", "Forte">>, <<"Getnet", "Getnet">>, <<"Globalpay",
     "Globalpay">>, <<"Globepay", "Globepay">>, <<"Gocardless",
     "Gocardless">>, <<"Hipay", "Hipay">>, <<"Helcim", "Helcim">>,
     <<"Iatapay", "Iatapay">>, <<"Inespay", "Inespay">>, <<"Itaubank",
     "Itaubank">>, <<"Jpmorgan", "Jpmorgan">>, <<"Klarna", "Klarna">>,
     <<"Mifinity", "Mifinity">>, <<"Mollie", "Mollie">>, <<"Moneris",
     "Moneris">>, <<"Multisafepay", "Multisafepay">>, <<"Nexinets",
     "Nexinets">>, <<"Nexixpay", "Nexixpay">>, <<"Nmi", "Nmi">>,
     <<"Nomupay", "Nomupay">>, <<"Noon", "Noon">>, <<"Novalnet",
     "Novalnet">>, <<"Nuvei", "Nuvei">>, <<"Opennode", "Opennode">>,
     <<"Paybox", "Paybox">>, <<"Payme", "Payme">>, <<"Payone", "Payone">>,
     <<"Paypal", "Paypal">>, <<"Paystack", "Paystack">>, <<"Payu", "Payu">>,
     <<"Placetopay", "Placetopay">>, <<"Plaid", "Plaid">>, <<"Powertranz",
     "Powertranz">>, <<"Prophetpay", "Prophetpay">>, <<"Rapyd", "Rapyd">>,
     <<"Razorpay", "Razorpay">>, <<"Recurly", "Recurly">>, <<"Redsys",
     "Redsys">>, <<"Shift4", "Shift4">>, <<"Square", "Square">>, <<"Stax",
     "Stax">>, <<"Stripe", "Stripe">>, <<"Stripebilling", "Stripebilling">>,
     <<"Trustpay", "Trustpay">>, <<"Tsys", "Tsys">>, <<"Volt", "Volt">>,
     <<"Wellsfargo", "Wellsfargo">>, <<"Wise", "Wise">>, <<"Worldline",
     "Worldline">>, <<"Worldpay", "Worldpay">>, <<"Worldpayvantiv",
     "Worldpayvantiv">>, <<"Worldpayxml", "Worldpayxml">>, <<"Xendit",
     "Xendit">>, <<"Zen", "Zen">>, <<"Zsl", "Zsl">>
    }

\* Lines 360..372: the arms compiled with the feature dummy_connector.
DummyRoutableArms ==
    {
     <<"DummyConnector1", "DummyConnector1">>, <<"DummyConnector2",
     "DummyConnector2">>, <<"DummyConnector3", "DummyConnector3">>,
     <<"DummyConnector4", "DummyConnector4">>, <<"DummyConnector5",
     "DummyConnector5">>, <<"DummyConnector6", "DummyConnector6">>,
     <<"DummyConnector7", "DummyConnector7">>
    }

\* Lines 234..382: the arms that return ValidationError::InvalidValue in
\* every build.
NotRoutableArms ==
    {
     "CtpVisa", "CtpMastercard", "Gpayments", "HyperswitchVault",
     "Juspaythreedsserver", "Netcetera", "Signifyd", "Riskified", "Vgs",
     "Threedsecureio", "Taxjar"
    }

\* Lines 353..358: the arm that returns it with the feature dummy_connector.
DummyNotRoutableArms == {"DummyBillingConnector"}

\* api_enums::Connector: the variants the match of lines 211..383 names in a
\* build with or without the feature dummy_connector.
Connector(dummy_connector) ==
    {a[1] : a \in RoutableArms} \cup NotRoutableArms
    \cup (IF dummy_connector
          THEN {a[1] : a \in DummyRoutableArms} \cup DummyNotRoutableArms
          ELSE {})

\* ------------------------------------------ transformers.rs: conversions

\* Lines 149..179 with PartialChargedAndChargeable taken as a charge.
CaptureStatusForeignTryFromChargeable(attempt_status) ==
    CASE attempt_status.variant \in {"Charged", "PartialCharged",
                                     "PartialChargedAndChargeable"}
            -> Ok(Variant("CaptureStatus", "Charged"))
      [] attempt_status.variant \in {"Pending", "CaptureInitiated"}
            -> Ok(Variant("CaptureStatus", "Pending"))
      [] attempt_status.variant \in {"Failure", "CaptureFailed"}
            -> Ok(Variant("CaptureStatus", "Failed"))
      [] OTHER -> Err("PreconditionFailed")

\* Lines 143..181: ForeignTryFrom<AttemptStatus> for CaptureStatus.
CaptureStatusForeignTryFrom(attempt_status) ==
    CASE attempt_status.variant \in {"Charged", "PartialCharged"}
            -> Ok(Variant("CaptureStatus", "Charged"))
      [] attempt_status.variant \in {"Pending", "CaptureInitiated"}
            -> Ok(Variant("CaptureStatus", "Pending"))
      [] attempt_status.variant \in {"Failure", "CaptureFailed"}
            -> Ok(Variant("CaptureStatus", "Failed"))
      [] attempt_status.variant \in
            {"Started", "AuthenticationFailed", "RouterDeclined",
             "AuthenticationPending", "AuthenticationSuccessful", "Authorized",
             "AuthorizationFailed", "Authorizing", "CodInitiated", "Voided",
             "VoidInitiated", "VoidFailed", "AutoRefunded", "Unresolved",
             "PaymentMethodAwaited", "ConfirmationAwaited",
             "DeviceDataCollectionPending", "PartialChargedAndChargeable"}
            -> Err("PreconditionFailed")

\* The arms of lines 211..383 that give a RoutableConnectors in this build.
ArmsOf(dummy_connector) ==
    RoutableArms \cup (IF dummy_connector THEN DummyRoutableArms ELSE {})

\* Lines 207..385 with the commented arm of line 329 in place of lines 378..382.
RoutableConnectorsForeignTryFromTaxjar(from, dummy_connector) ==
    LET arms == ArmsOf(dummy_connector) \cup {<<"Taxjar", "Taxjar">>}
    IN  IF \E a \in arms : a[1] = from.variant
        THEN Ok(Variant("RoutableConnectors",
                        (CHOOSE a \in arms : a[1] = from.variant)[2]))
        ELSE Err("InvalidValue")

\* Lines 207..385: ForeignTryFrom<Connector> for RoutableConnectors.
RoutableConnectorsForeignTryFrom(from, dummy_connector) ==
    LET arms == ArmsOf(dummy_connector)
    IN  IF \E a \in arms : a[1] = from.variant
        THEN Ok(Variant("RoutableConnectors",
                        (CHOOSE a \in arms : a[1] = from.variant)[2]))
        ELSE Err("InvalidValue")

\* Option<T>.
Nothing == [some |-> FALSE]

Some(x) == [some |-> TRUE, v |-> x]

Option(T) == {Nothing} \cup {Some(x) : x \in T}

\* The integers of limit and offset, and i64::from of one (lines 1964, 1965).
Integer(n) == [ty |-> "int", v |-> n]

I64From(x) == [ty |-> "i64", v |-> x.v]

\* .map(i64::from) on an Option (lines 1964, 1965).
MapI64From(o) == IF o.some THEN Some(I64From(o.v)) ELSE Nothing

\* api_types::webhook_events::EventListConstraints.
EventListConstraints ==
    [created_after : Option({"2024-01-01"}),
     created_before : Option({"2024-02-01"}),
     limit : Option({Integer(0), Integer(65535)}),
     offset : Option({Integer(20)}),
     object_id : Option({"pay_1"}),
     event_classes : Option({{"Payments"}}),
     event_types : Option({{"PaymentSucceeded", "PaymentFailed"}}),
     is_delivered : Option(BOOLEAN)]

\* The condition of lines 1944..1950 without its last disjunct.
OverConstrainedButEventTypes(item) ==
    /\ item.object_id.some
    /\ \/ item.created_after.some
       \/ item.created_before.some
       \/ item.limit.some
       \/ item.offset.some
       \/ item.event_classes.some

\* The condition of lines 1944..1950.
OverConstrained(item) ==
    /\ item.object_id.some
    /\ \/ item.created_after.some
       \/ item.created_before.some
       \/ item.limit.some
       \/ item.offset.some
       \/ item.event_classes.some
       \/ item.event_types.some

\* Lines 1934..1973: ForeignTryFrom<EventListConstraints> for
\* EventListConstraintsInternal.
EventListConstraintsInternalForeignTryFrom(item) ==
    IF OverConstrained(item)
    THEN Err("PreconditionFailed")
    ELSE IF item.object_id.some
    THEN Ok([filter |-> "ObjectIdFilter", object_id |-> item.object_id.v])
    ELSE Ok([filter |-> "GenericFilter",
             created_after |-> item.created_after,
             created_before |-> item.created_before,
             limit |-> MapI64From(item.limit),
             offset |-> MapI64From(item.offset),
             event_classes |-> item.event_classes,
             event_types |-> item.event_types,
             is_delivered |-> item.is_delivered])

\* One call of a conversion: what went in and what came out.
Converted(kind, from, to) ==
    /\ conv' = [kind |-> kind, dummy_connector |-> conv.dummy_connector,
                from |-> from, to |-> to]
    /\ UNCHANGED <<procs, pc, args, qb, compiled, sent, invoked, response, result,
                   fresh, snapshot>>

ConvertAttemptStatus ==
    \E s \in AttemptStatus :
        LET attempt_status == Variant("AttemptStatus", s)
        IN  Converted("CaptureStatus", attempt_status,
                      CaptureStatusForeignTryFrom(attempt_status))

ConvertConnector ==
    \E c \in Connector(conv.dummy_connector) :
        LET from == Variant("Connector", c)
        IN  Converted("RoutableConnectors", from,
                      RoutableConnectorsForeignTryFrom(from, conv.dummy_connector))

ConvertEventListConstraints ==
    \E item \in EventListConstraints :
        Converted("EventListConstraintsInternal", item,
                  EventListConstraintsInternalForeignTryFrom(item))

\* No metric computation runs; the build has the feature dummy_connector or
\* not.
InitTransformers ==
    /\ procs = {}
    /\ pc = [p \in procs |-> "idle"]
    /\ args = [p \in procs |-> NoArgs]
    /\ qb = [p \in procs |-> QueryBuilderNew(Collection)]
    /\ compiled = [p \in procs |-> NoBuild]
    /\ sent = [p \in procs |-> NoQuery]
    /\ invoked = [p \in procs |-> 0]
    /\ response = [p \in procs |-> NoResponse]
    /\ result = [p \in procs |-> NoResult]
    /\ fresh = [p \in procs |-> FALSE]
    /\ snapshot = NoSnapshot
    /\ \E f \in BOOLEAN : conv = [NoConversion EXCEPT !.dummy_connector = f]

NextTransformers ==
    \/ ConvertAttemptStatus
    \/ ConvertConnector
    \/ ConvertEventListConstraints

SpecTransformers == InitTransformers /\ [][NextTransformers]_vars

\* C18: converting an AttemptStatus to a CaptureStatus succeeds for exactly
\* six statuses -- Charged and PartialCharged give Charged, Pending and
\* CaptureInitiated give Pending, Failure and CaptureFailed give Failed -- and
\* for every other status gives PreconditionFailed and no CaptureStatus.
C18_CaptureStatusFromSixStatuses ==
    conv.kind = "CaptureStatus"
       => LET s == conv.from.variant
              Gives(c) == conv.to = Ok(Variant("CaptureStatus", c))
          IN  /\ s \in {"Charged", "PartialCharged"} => Gives("Charged")
              /\ s \in {"Pending", "CaptureInitiated"} => Gives("Pending")
              /\ s \in {"Failure", "CaptureFailed"} => Gives("Failed")
              /\ s \notin {"Charged", "PartialCharged", "Pending",
                           "CaptureInitiated", "Failure", "CaptureFailed"}
                    => /\ conv.to = Err("PreconditionFailed")
                       /\ "value" \notin DOMAIN conv.to
              /\ conv.to.ok => conv.to.value.variant \in CaptureStatus
              /\ Cardinality({a \in AttemptStatus :
                    CaptureStatusForeignTryFrom(Variant("AttemptStatus", a)).ok}) = 6

C18_Witness ==
    /\ conv.kind = "CaptureStatus"
    /\ conv.from = Variant("AttemptStatus", "PartialChargedAndChargeable")
    /\ ~conv.to.ok

C18_WitnessCharged ==
    /\ conv.kind = "CaptureStatus"
    /\ conv.from = Variant("AttemptStatus", "PartialCharged")
    /\ conv.to = Ok(Variant("CaptureStatus", "Charged"))

\* The connectors the conversion declares not routable.
DeclaredNotRoutable(dummy_connector) ==
    {"CtpVisa", "CtpMastercard", "Gpayments", "HyperswitchVault",
     "Juspaythreedsserver", "Netcetera", "Signifyd", "Riskified", "Vgs",
     "Threedsecureio", "Taxjar"}
    \cup (IF dummy_connector THEN {"DummyBillingConnector"} ELSE {})

\* C19: converting a Connector to a RoutableConnectors fails with
\* ValidationError::InvalidValue exactly for the connectors declared not
\* routable; for every other Connector it gives the RoutableConnectors
\* variant of the same name, and no other Connector gives that variant.
C19_NotRoutableExactlyAsDeclared ==
    conv.kind = "RoutableConnectors"
       => LET f == conv.dummy_connector
          IN  /\ conv.from.variant \in DeclaredNotRoutable(f)
                    <=> conv.to = Err("InvalidValue")
              /\ conv.from.variant \notin DeclaredNotRoutable(f)
                    => conv.to = Ok(Variant("RoutableConnectors", conv.from.variant))
              /\ conv.to.ok
                    => \A other \in Connector(f) \ {conv.from.variant} :
                          RoutableConnectorsForeignTryFrom(Variant("Connector", other), f)
                             # conv.to

C19_Witness ==
    /\ conv.kind = "RoutableConnectors"
    /\ conv.dummy_connector
    /\ conv.from = Variant("Connector", "DummyBillingConnector")
    /\ conv.to = Err("InvalidValue")

C19_WitnessRoutable ==
    /\ conv.kind = "RoutableConnectors"
    /\ ~conv.dummy_connector
    /\ conv.from = Variant("Connector", "Stripe")
    /\ conv.to = Ok(Variant("RoutableConnectors", "Stripe"))

C19_WitnessTaxjar ==
    /\ conv.kind = "RoutableConnectors"
    /\ conv.from = Variant("Connector", "Taxjar")
    /\ ~conv.to.ok

\* C20: converting EventListConstraints fails with PreconditionFailed exactly
\* when object_id is given together with one of created_after,
\* created_before, limit, offset, event_classes, event_types; otherwise it
\* gives ObjectIdFilter with that object_id when one is given, and
\* GenericFilter with the other constraints, their values unchanged, when not.
C20_ObjectIdAloneOrGenericFilter ==
    conv.kind = "EventListConstraintsInternal"
       => LET item == conv.from
              together == /\ item.object_id # Nothing
                          /\ ~(/\ item.created_after = Nothing
                               /\ item.created_before = Nothing
                               /\ item.limit = Nothing
                               /\ item.offset = Nothing
                               /\ item.event_classes = Nothing
                               /\ item.event_types = Nothing)
              SameValue(a, b) == /\ a.some <=> b.some
                                 /\ a.some => a.v.v = b.v.v
          IN  /\ together <=> conv.to = Err("PreconditionFailed")
              /\ (~together /\ item.object_id # Nothing)
                    => conv.to = Ok([filter |-> "ObjectIdFilter",
                                     object_id |-> item.object_id.v])
              /\ (~together /\ item.object_id = Nothing)
                    => /\ conv.to.ok
                       /\ conv.to.value.filter = "GenericFilter"
                       /\ conv.to.value.created_after = item.created_after
                       /\ conv.to.value.created_before = item.created_before
                       /\ SameValue(conv.to.value.limit, item.limit)
                       /\ SameValue(conv.to.value.offset, item.offset)
                       /\ conv.to.value.event_classes = item.event_classes
                       /\ conv.to.value.event_types = item.event_types
                       /\ conv.to.value.is_delivered = item.is_delivered

C20_Witness ==
    /\ conv.kind = "EventListConstraintsInternal"
    /\ conv.from.object_id # Nothing
    /\ conv.from.event_types # Nothing
    /\ conv.from.created_after = Nothing
    /\ conv.from.created_before = Nothing
    /\ conv.from.limit = Nothing
    /\ conv.from.offset = Nothing
    /\ conv.from.event_classes = Nothing
    /\ conv.to = Err("PreconditionFailed")

C20_WitnessObjectId ==
    /\ conv.kind = "EventListConstraintsInternal"
    /\ conv.from.object_id # Nothing
    /\ conv.from.is_delivered # Nothing
    /\ conv.to.ok
    /\ conv.to.value.filter = "ObjectIdFilter"

C20_WitnessGeneric ==
    /\ conv.kind = "EventListConstraintsInternal"
    /\ conv.from.object_id = Nothing
    /\ conv.from.limit = Some(Integer(65535))
    /\ conv.from.is_delivered = Some(TRUE)
    /\ conv.to.ok
    /\ conv.to.value.limit = Some(I64From(Integer(65535)))

\* ------------------------------------------- transformers.rs: addresses

\* An Encryptable value and Encryptable::into_inner.
Encryptable(x) == [inner |-> x, encrypted |-> "ciphertext"]

IntoInner(e) == e.inner

\* .map(Encryptable::into_inner) on an Option (lines 801..806, 814).
MapIntoInner(o) == IF o.some THEN Some(IntoInner(o.v)) ELSE Nothing

\* .map(pii::Email::from) on an Option (lines 824, 870).
MapEmailFrom(o) == IF o.some THEN Some([email |-> IntoInner(o.v)]) ELSE Nothing

\* domain::Address, the fields the two conversions read.
DomainAddress ==
    [city : Option({"Paris"}),
     country : Option({"FR"}),
     line1 : Option({Encryptable("1 rue A")}),
     line2 : Option({Encryptable("apt 2")}),
     line3 : Option({Encryptable("c/o B")}),
     state : Option({Encryptable("IDF")}),
     zip : Option({Encryptable("75001")}),
     first_name : Option({Encryptable("Ada")}),
     last_name : Option({Encryptable("Byron")}),
     phone_number : Option({Encryptable("600000000")}),
     country_code : Option({"+33"}),
     email : Option({Encryptable("a@b.c")})]

\* Lines 783..827 with last_name left out of the condition of lines 786..794.
DomainModelsAddressFromIgnoringLastName(address) ==
    LET address_details == IF
                              /\ ~address.city.some
                              /\ ~address.line1.some
                              /\ ~address.line2.some
                              /\ ~address.line3.some
                              /\ ~address.state.some
                              /\ ~address.country.some
                              /\ ~address.zip.some
                              /\ ~address.first_name.some
                           THEN Nothing
                           ELSE Some([ty |-> "hyperswitch_domain_models::AddressDetails",
                                      city |-> address.city,
                                      country |-> address.country,
                                      line1 |-> MapIntoInner(address.line1),
                                      line2 |-> MapIntoInner(address.line2),
                                      line3 |-> MapIntoInner(address.line3),
                                      state |-> MapIntoInner(address.state),
                                      zip |-> MapIntoInner(address.zip),
                                      first_name |-> MapIntoInner(address.first_name),
                                      last_name |-> MapIntoInner(address.last_name)])
        phone_details == IF ~address.phone_number.some /\ ~address.country_code.some
                         THEN Nothing
                         ELSE Some([ty |-> "hyperswitch_domain_models::PhoneDetails",
                                    number |-> MapIntoInner(address.phone_number),
                                    country_code |-> address.country_code])
    IN  [ty |-> "hyperswitch_domain_models::Address",
         address |-> address_details,
         phone |-> phone_details,
         email |-> MapEmailFrom(address.email)]

\* Lines 783..827: From<&domain::Address> for
\* hyperswitch_domain_models::address::Address.
DomainModelsAddressFrom(address) ==
    LET address_details == IF
                              /\ ~address.city.some
                              /\ ~address.line1.some
                              /\ ~address.line2.some
                              /\ ~address.line3.some
                              /\ ~address.state.some
                              /\ ~address.country.some
                              /\ ~address.zip.some
                              /\ ~address.first_name.some
                              /\ ~address.last_name.some
                           THEN Nothing
                           ELSE Some([ty |-> "hyperswitch_domain_models::AddressDetails",
                                      city |-> address.city,
                                      country |-> address.country,
                                      line1 |-> MapIntoInner(address.line1),
                                      line2 |-> MapIntoInner(address.line2),
                                      line3 |-> MapIntoInner(address.line3),
                                      state |-> MapIntoInner(address.state),
                                      zip |-> MapIntoInner(address.zip),
                                      first_name |-> MapIntoInner(address.first_name),
                                      last_name |-> MapIntoInner(address.last_name)])
        phone_details == IF ~address.phone_number.some /\ ~address.country_code.some
                         THEN Nothing
                         ELSE Some([ty |-> "hyperswitch_domain_models::PhoneDetails",
                                    number |-> MapIntoInner(address.phone_number),
                                    country_code |-> address.country_code])
    IN  [ty |-> "hyperswitch_domain_models::Address",
         address |-> address_details,
         phone |-> phone_details,
         email |-> MapEmailFrom(address.email)]

\* Lines 829..873: ForeignFrom<domain::Address> for api_types::Address.
ApiAddressForeignFrom(address) ==
    LET address_details == IF
                              /\ ~address.city.some
                              /\ ~address.line1.some
                              /\ ~address.line2.some
                              /\ ~address.line3.some
                              /\ ~address.state.some
                              /\ ~address.country.some
                              /\ ~address.zip.some
                              /\ ~address.first_name.some
                              /\ ~address.last_name.some
                           THEN Nothing
                           ELSE Some([ty |-> "api_types::AddressDetails",
                                      city |-> address.city,
                                      country |-> address.country,
                                      line1 |-> MapIntoInner(address.line1),
                                      line2 |-> MapIntoInner(address.line2),
                                      line3 |-> MapIntoInner(address.line3),
                                      state |-> MapIntoInner(address.state),
                                      zip |-> MapIntoInner(address.zip),
                                      first_name |-> MapIntoInner(address.first_name),
                                      last_name |-> MapIntoInner(address.last_name)])
        phone_details == IF ~address.phone_number.some /\ ~address.country_code.some
                         THEN Nothing
                         ELSE Some([ty |-> "api_types::PhoneDetails",
                                    number |-> MapIntoInner(address.phone_number),
                                    country_code |-> address.country_code])
    IN  [ty |-> "api_types::Address",
         address |-> address_details,
         phone |-> phone_details,
         email |-> MapEmailFrom(address.email)]

\* No conversion was made yet: the runs below draw one input and convert it.
Unconverted == conv.kind = "none"

ConvertDomainModelsAddress ==
    /\ Unconverted
    /\ \E address \in DomainAddress :
           Converted("hyperswitch_domain_models::Address", address,
                         DomainModelsAddressFrom(address))

ConvertApiAddress ==
    /\ Unconverted
    /\ \E address \in DomainAddress :
           Converted("api_types::Address", address, ApiAddressForeignFrom(address))

NextAddress ==
    \/ ConvertDomainModelsAddress
    \/ ConvertApiAddress

SpecAddress == InitTransformers /\ [][NextAddress]_vars

\* None of the nine address fields of a is given.
NoAddressField(a) ==
    {a.city, a.country} = {Nothing}
       /\ {a.line1, a.line2, a.line3, a.state, a.zip, a.first_name, a.last_name}
             = {Nothing}

\* C21: when a domain Address is converted, the address details are None
\* exactly when all nine of city, line1, line2, line3, state, country, zip,
\* first_name and last_name are None, and the phone details are None exactly
\* when phone_number and country_code both are; the conversion to the
\* domain-model Address and the one to the API Address decide alike on every
\* input.
C21_AddressAndPhoneDetailsPresence ==
    conv.kind \in {"hyperswitch_domain_models::Address", "api_types::Address"}
       => LET a == conv.from
              other == IF conv.kind = "api_types::Address"
                       THEN DomainModelsAddressFrom(a)
                       ELSE ApiAddressForeignFrom(a)
          IN  /\ ~conv.to.address.some <=> NoAddressField(a)
              /\ ~conv.to.phone.some
                    <=> (~a.phone_number.some /\ ~a.country_code.some)
              /\ other.ty # conv.to.ty
              /\ other.address.some <=> conv.to.address.some
              /\ other.phone.some <=> conv.to.phone.some

C21_Witness ==
    /\ conv.kind = "hyperswitch_domain_models::Address"
    /\ conv.from.last_name.some
    /\ \A f \in {"city", "country", "line1", "line2", "line3", "state", "zip",
                 "first_name"} : ~conv.from[f].some
    /\ conv.to.address.some
    /\ conv.from.country_code.some
    /\ ~conv.from.phone_number.some
    /\ conv.to.phone.some

C21_WitnessApiNone ==
    /\ conv.kind = "api_types::Address"
    /\ NoAddressField(conv.from)
    /\ conv.from.email.some
    /\ ~conv.to.address.some
    /\ ~conv.to.phone.some

\* ------------------------------------- transformers.rs: PaymentsRequest

\* Option::or.
Or(a, b) == IF a.some THEN a ELSE b

\* From<hyperswitch_domain_models::address::Address> for api_types::Address,
\* called at line 1744: the same three fields under the API type.
ApiAddressFrom(address) ==
    [ty |-> "api_types::Address", address |-> address.address,
     phone |-> address.phone, email |-> address.email]

\* payments::Address { email, ..Default::default() } (lines 1759..1768).
DefaultAddressWith(email) ==
    [ty |-> "api_types::Address", address |-> Nothing, phone |-> Nothing,
     email |-> email]

\* The billing addresses a merchant stores: with or without an email, a city
\* and a phone number.
BillingAddresses ==
    {a \in DomainAddress :
        \A f \in DOMAIN a : f \notin {"email", "city", "phone_number"} => ~a[f].some}

\* domain::Customer, the field the billing email is taken from.
Customers == [email : Option({Encryptable("customer@x")})]

\* The stored customer_details of a payment intent: a value that parses to a
\* CustomerData, or one that does not.
CustomerDetails ==
    {[parses |-> FALSE]}
    \cup {[parses |-> TRUE, data |-> [email |-> e]] :
             e \in Option({[email |-> "intent@x"]})}

PaymentIntents == [customer_details : Option(CustomerDetails)]

\* Lines 1723..1739: parse_value::<CustomerData> of the stored details.
CustomerDetailsFromPi(payment_intent) ==
    IF ~payment_intent.some \/ ~payment_intent.v.customer_details.some
    THEN Ok(Nothing)
    ELSE IF payment_intent.v.customer_details.v.parses
    THEN Ok(Some(payment_intent.v.customer_details.v.data))
    ELSE Err("InvalidDataValue")

\* Lines 1750..1756: customer.and_then(email).or(customer_details_from_pi
\* .and_then(email)).
FallbackEmail(customer, customer_details_from_pi) ==
    Or(IF customer.some THEN MapEmailFrom(customer.v.email) ELSE Nothing,
       IF customer_details_from_pi.some
       THEN customer_details_from_pi.v.email ELSE Nothing)

\* Lines 1748..1769 with the customer's email ahead of the billing address's.
BillingAddressCustomerFirst(billing, customer, customer_details_from_pi) ==
    LET billing_address == IF billing.some
                           THEN Some(ApiAddressFrom(DomainModelsAddressFrom(billing.v)))
                           ELSE Nothing
        fallback == FallbackEmail(customer, customer_details_from_pi)
    IN  IF billing_address.some
        THEN Some([billing_address.v EXCEPT !.email = Or(fallback, @)])
        ELSE Some(DefaultAddressWith(fallback))

\* Lines 1742..1769: the billing address of the request.
BillingAddress(billing, customer, customer_details_from_pi) ==
    LET billing_address == IF billing.some
                           THEN Some(ApiAddressFrom(DomainModelsAddressFrom(billing.v)))
                           ELSE Nothing
        fallback == FallbackEmail(customer, customer_details_from_pi)
    IN  IF billing_address.some
        THEN Some([billing_address.v EXCEPT !.email = Or(@, fallback)])
        ELSE Some(DefaultAddressWith(fallback))

\* Lines 1700..1792: ForeignTryFrom<(Option<&PaymentAttempt>, ...)> for
\* PaymentsRequest, the fields built from the addresses and the customer.
PaymentsRequestForeignTryFrom(value) ==
    LET parsed == CustomerDetailsFromPi(value.payment_intent)
    IN  IF ~parsed.ok
        THEN parsed
        ELSE Ok([billing |-> BillingAddress(value.billing, value.customer,
                                            parsed.value),
                 email |-> FallbackEmail(value.customer, parsed.value)])

ConvertPaymentsRequest ==
    /\ Unconverted
    /\ \E billing \in Option(BillingAddresses), customer \in Option(Customers),
          payment_intent \in Option(PaymentIntents) :
           LET value == [billing |-> billing, customer |-> customer,
                         payment_intent |-> payment_intent]
           IN  Converted("PaymentsRequest", value,
                             PaymentsRequestForeignTryFrom(value))

NextPaymentsRequest == ConvertPaymentsRequest

SpecPaymentsRequest == InitTransformers /\ [][NextPaymentsRequest]_vars

\* The email the merchant gave with the billing address, the customer's, and
\* the one of the customer details stored in the payment intent, if any.
OwnEmail(value) ==
    IF value.billing.some /\ value.billing.v.email.some
    THEN {value.billing.v.email.v.inner} ELSE {}

CustomerEmail(value) ==
    IF value.customer.some /\ value.customer.v.email.some
    THEN {value.customer.v.email.v.inner} ELSE {}

IntentEmail(value) ==
    IF /\ value.payment_intent.some
       /\ value.payment_intent.v.customer_details.some
       /\ value.payment_intent.v.customer_details.v.parses
       /\ value.payment_intent.v.customer_details.v.data.email.some
    THEN {value.payment_intent.v.customer_details.v.data.email.v.email} ELSE {}

\* C22: in a PaymentsRequest built from stored data the billing field is
\* always present, and its email is the billing address's own email if
\* present, otherwise the customer's if present, otherwise the one of the
\* customer details stored in the payment intent; an email the merchant gave
\* with the billing address is never replaced.
C22_BillingEmailPrecedence ==
    (conv.kind = "PaymentsRequest" /\ conv.to.ok)
       => LET value == conv.from
              billing == conv.to.value.billing
              email == IF billing.v.email.some THEN {billing.v.email.v.email} ELSE {}
          IN  /\ billing.some
              /\ OwnEmail(value) # {} => email = OwnEmail(value)
              /\ (OwnEmail(value) = {} /\ CustomerEmail(value) # {})
                    => email = CustomerEmail(value)
              /\ (OwnEmail(value) = {} /\ CustomerEmail(value) = {})
                    => email = IntentEmail(value)
              /\ value.billing.some
                    => /\ billing.v.address.some <=> value.billing.v.city.some
                       /\ billing.v.phone.some <=> value.billing.v.phone_number.some

C22_Witness ==
    /\ conv.kind = "PaymentsRequest"
    /\ conv.to.ok
    /\ OwnEmail(conv.from) # {}
    /\ CustomerEmail(conv.from) # {}
    /\ IntentEmail(conv.from) # {}
    /\ conv.to.value.billing.v.email = Some([email |-> "a@b.c"])

C22_WitnessNoBilling ==
    /\ conv.kind = "PaymentsRequest"
    /\ conv.to.ok
    /\ ~conv.from.billing.some
    /\ conv.from.customer.some
    /\ CustomerEmail(conv.from) = {}
    /\ conv.to.value.billing = Some(DefaultAddressWith(Some([email |-> "intent@x"])))

C22_WitnessCustomer ==
    /\ conv.kind = "PaymentsRequest"
    /\ conv.to.ok
    /\ conv.from.billing.some
    /\ OwnEmail(conv.from) = {}
    /\ IntentEmail(conv.from) # {}
    /\ conv.to.value.billing.v.email = Some([email |-> "customer@x"])

\* --------------------------------------- transformers.rs: HeaderPayload

\* A header value that reads as the string s, and one that does not read as
\* a string.
Str(s) == [str |-> TRUE, s |-> s]

NotStr == [str |-> FALSE]

\* The headers read with `?` and handed on as strings (lines 1558..1596), in
\* the order they are read.
PlainKeys ==
    <<"ACCEPT_LANGUAGE", "X_CLIENT_SOURCE", "X_CLIENT_VERSION",
      "X_MERCHANT_DOMAIN", "X_APP_ID", "X_REDIRECT_URI">>

\* The headers whose value is interpreted.
ParsedKeys ==
    {"X_PAYMENT_CONFIRM_SOURCE", "X_HS_LATENCY", "BROWSER_NAME",
     "X_CLIENT_PLATFORM"}

HeaderKeys == ParsedKeys \cup Range(PlainKeys)

\* The values a request may send under each header.
HeaderValues(key) ==
    {Nothing, Some(NotStr)}
    \cup {Some(Str(v)) :
            v \in CASE key = "X_PAYMENT_CONFIRM_SOURCE"
                          -> {"merchant_server", "webhook", "bogus"}
                    [] key = "X_HS_LATENCY" -> {"true", "false", "TRUE"}
                    [] key = "BROWSER_NAME" -> {"Safari", "netscape"}
                    [] key = "X_CLIENT_PLATFORM" -> {"web", "fridge"}
                    [] OTHER -> {"v"}}

\* A request: values under the interpreted headers, and one of the plain
\* headers sent or not.
HeaderMap(source, latency, browser, platform, key, value) ==
    [k \in HeaderKeys |->
        CASE k = "X_PAYMENT_CONFIRM_SOURCE" -> source
          [] k = "X_HS_LATENCY" -> latency
          [] k = "BROWSER_NAME" -> browser
          [] k = "X_CLIENT_PLATFORM" -> platform
          [] k = key -> value
          [] OTHER -> Nothing]

\* services::authentication::get_header_value_by_key: no value, the value as
\* a string, or an error for a value that is not a string.
GetHeaderValueByKey(key, headers) ==
    IF ~headers[key].some THEN Ok(Nothing)
    ELSE IF headers[key].v.str THEN Ok(Some(headers[key].v.s))
    ELSE Err("HeaderValueNotString")

\* parse_enum: the variant a string names, if any.
ParseEnum(enum, s) ==
    LET names == CASE enum = "PaymentSource"
                        -> {<<"merchant_server", "MerchantServer">>,
                            <<"postman", "Postman">>, <<"dashboard", "Dashboard">>,
                            <<"sdk", "Sdk">>, <<"webhook", "Webhook">>,
                            <<"external_authenticator", "ExternalAuthenticator">>}
                   [] enum = "BrowserName"
                        -> {<<"Safari", "Safari">>, <<"Unknown", "Unknown">>}
                   [] enum = "ClientPlatform"
                        -> {<<"web", "Web">>, <<"ios", "Ios">>,
                            <<"android", "Android">>, <<"unknown", "Unknown">>}
    IN  IF \E n \in names : n[1] = s
        THEN Ok(Variant(enum, (CHOOSE n \in names : n[1] = s)[2]))
        ELSE Err("ParsingError")

\* PaymentSource::is_for_internal_use_only.
IsForInternalUseOnly(payment_source) ==
    payment_source.variant \in {"Webhook", "ExternalAuthenticator"}

\* Result::unwrap_or.
UnwrapOr(r, default) == IF r.ok THEN r.value ELSE default

\* Lines 1533..1547 with a source that does not parse taken as no source.
PaymentConfirmSourceLenient(headers) ==
    LET read == GetHeaderValueByKey("X_PAYMENT_CONFIRM_SOURCE", headers)
    IN  IF ~read.ok THEN read
        ELSE IF ~read.value.some THEN Ok(Nothing)
        ELSE LET parsed == ParseEnum("PaymentSource", read.value.v)
             IN  IF parsed.ok THEN Ok(Some(parsed.value)) ELSE Ok(Nothing)

\* Lines 1533..1547 (1621..1635): the header read with `?`, parsed, the
\* parse error reported as InvalidRequestData.
PaymentConfirmSource(headers) ==
    LET read == GetHeaderValueByKey("X_PAYMENT_CONFIRM_SOURCE", headers)
    IN  IF ~read.ok THEN read
        ELSE IF ~read.value.some THEN Ok(Nothing)
        ELSE LET parsed == ParseEnum("PaymentSource", read.value.v)
             IN  IF parsed.ok THEN Ok(Some(parsed.value))
                 ELSE Err("InvalidRequestData")

\* Lines 1560..1562 (1648..1650): x_hs_latency.
XHsLatency(headers) ==
    LET read == GetHeaderValueByKey("X_HS_LATENCY", headers)
    IN  UnwrapOr(IF read.ok THEN Ok(read.value = Some("true")) ELSE read, FALSE)

\* Lines 1570..1590 (1658..1678): a header read with `?` and parsed, Unknown
\* for a value that does not parse.
ParsedOrUnknown(key, enum, headers) ==
    LET read == GetHeaderValueByKey(key, headers)
    IN  IF ~read.ok THEN read
        ELSE IF ~read.value.some THEN Ok(Nothing)
        ELSE Ok(Some(UnwrapOr(ParseEnum(enum, read.value.v),
                              Variant(enum, "Unknown"))))

\* The first of the headers read with `?` after the payment source that does
\* not read as a string, if any.
Unread(headers) ==
    {k \in Range(PlainKeys) \cup {"BROWSER_NAME", "X_CLIENT_PLATFORM"} :
        ~GetHeaderValueByKey(k, headers).ok}

\* The fields of the two HeaderPayload builds: lines 1598..1609 (v1) and
\* 1686..1697 (v2, without client_source and client_version).
PayloadFields(version) ==
    {"payment_confirm_source", "x_hs_latency", "browser_name",
     "x_client_platform", "x_merchant_domain", "locale", "x_app_id",
     "x_redirect_uri"}
    \cup (IF version = "v1" THEN {"client_source", "client_version"} ELSE {})

\* Lines 1529..1611 (v1) and 1613..1699 (v2): ForeignTryFrom<&HeaderMap> for
\* HeaderPayload.
HeaderPayloadForeignTryFrom(headers, version) ==
    LET payment_confirm_source == PaymentConfirmSource(headers)
        plain(key) == GetHeaderValueByKey(key, headers).value
        all == [payment_confirm_source |-> payment_confirm_source.value,
                client_source |-> plain("X_CLIENT_SOURCE"),
                client_version |-> plain("X_CLIENT_VERSION"),
                x_hs_latency |-> Some(XHsLatency(headers)),
                browser_name |->
                    ParsedOrUnknown("BROWSER_NAME", "BrowserName", headers).value,
                x_client_platform |->
                    ParsedOrUnknown("X_CLIENT_PLATFORM", "ClientPlatform", headers).value,
                x_merchant_domain |-> plain("X_MERCHANT_DOMAIN"),
                locale |-> plain("ACCEPT_LANGUAGE"),
                x_app_id |-> plain("X_APP_ID"),
                x_redirect_uri |-> plain("X_REDIRECT_URI")]
    IN  IF ~payment_confirm_source.ok THEN payment_confirm_source
        ELSE IF /\ payment_confirm_source.value.some
                /\ IsForInternalUseOnly(payment_confirm_source.value.v)
        THEN Err("InvalidRequestData")
        ELSE IF Unread(headers) # {}
        THEN Err("HeaderValueNotString")
        ELSE Ok([f \in PayloadFields(version) |-> all[f]])

ConvertHeaders(version) ==
    /\ Unconverted
    /\ \E source \in HeaderValues("X_PAYMENT_CONFIRM_SOURCE"),
          latency \in HeaderValues("X_HS_LATENCY"),
          browser \in HeaderValues("BROWSER_NAME"),
          platform \in HeaderValues("X_CLIENT_PLATFORM"),
          key \in Range(PlainKeys), value \in HeaderValues("ACCEPT_LANGUAGE") :
           LET headers == HeaderMap(source, latency, browser, platform, key, value)
           IN  Converted("HeaderPayload", [headers |-> headers, version |-> version],
                             HeaderPayloadForeignTryFrom(headers, version))

ConvertHeadersV1 == ConvertHeaders("v1")

ConvertHeadersV2 == ConvertHeaders("v2")

NextHeaders ==
    \/ ConvertHeadersV1
    \/ ConvertHeadersV2

SpecHeaders == InitTransformers /\ [][NextHeaders]_vars

\* The header value is a string that names no variant of the enum.
Unparseable(value, enum) ==
    /\ value.some
    /\ value.v.str
    /\ ~ParseEnum(enum, value.v.s).ok

\* The header value is a string that names an internal-use-only PaymentSource.
InternalSource(value) ==
    /\ value.some
    /\ value.v.str
    /\ value.v.s \in {"webhook", "external_authenticator"}

\* C23: building a HeaderPayload fails with InvalidRequestData whenever the
\* payment-confirm-source header holds a value that does not parse to a
\* PaymentSource or parses to an internal-use-only one, so no built payload
\* carries such a source; a browser-name or client-platform value that does
\* not parse never fails the build but becomes Unknown; and x_hs_latency is
\* true only when its header equals "true".
C23_HeaderPayloadBuild ==
    conv.kind = "HeaderPayload"
       => LET h == conv.from.headers
              source == h["X_PAYMENT_CONFIRM_SOURCE"]
          IN  /\ (Unparseable(source, "PaymentSource") \/ InternalSource(source))
                    => conv.to = Err("InvalidRequestData")
              /\ conv.to.ok
                    => /\ conv.to.value.payment_confirm_source.some
                          => conv.to.value.payment_confirm_source.v.variant
                                \notin {"Webhook", "ExternalAuthenticator"}
                       /\ Unparseable(h["BROWSER_NAME"], "BrowserName")
                             => conv.to.value.browser_name
                                   = Some(Variant("BrowserName", "Unknown"))
                       /\ Unparseable(h["X_CLIENT_PLATFORM"], "ClientPlatform")
                             => conv.to.value.x_client_platform
                                   = Some(Variant("ClientPlatform", "Unknown"))
                       /\ conv.to.value.x_hs_latency.some
                       /\ conv.to.value.x_hs_latency.v
                             <=> h["X_HS_LATENCY"] = Some(Str("true"))
              /\ ~conv.to.ok
                    => \/ Unparseable(source, "PaymentSource")
                       \/ InternalSource(source)
                       \/ \E k \in HeaderKeys \ {"X_HS_LATENCY"} : h[k] = Some(NotStr)

C23_Witness ==
    /\ conv.kind = "HeaderPayload"
    /\ conv.from.version = "v1"
    /\ conv.from.headers["X_PAYMENT_CONFIRM_SOURCE"] = Some(Str("webhook"))
    /\ \A k \in HeaderKeys : conv.from.headers[k] # Some(NotStr)
    /\ conv.to = Err("InvalidRequestData")

C23_WitnessBogus ==
    /\ conv.kind = "HeaderPayload"
    /\ conv.from.version = "v2"
    /\ conv.from.headers["X_PAYMENT_CONFIRM_SOURCE"] = Some(Str("bogus"))
    /\ conv.to = Err("InvalidRequestData")

C23_WitnessUnknown ==
    /\ conv.kind = "HeaderPayload"
    /\ conv.from.version = "v2"
    /\ conv.from.headers["BROWSER_NAME"] = Some(Str("netscape"))
    /\ conv.from.headers["X_CLIENT_PLATFORM"] = Some(Str("fridge"))
    /\ conv.from.headers["X_HS_LATENCY"] = Some(NotStr)
    /\ conv.to.ok
    /\ conv.to.value.browser_name = Some(Variant("BrowserName", "Unknown"))
    /\ conv.to.value.x_hs_latency = Some(FALSE)

C23_WitnessLatency ==
    /\ conv.kind = "HeaderPayload"
    /\ conv.from.headers["X_HS_LATENCY"] = Some(Str("true"))
    /\ conv.to.ok
    /\ conv.to.value.x_hs_latency = Some(TRUE)

\* The two calls differ at most in merchant_id.
SameButMerchantId(p, o) ==
    /\ args[p] # NoArgs
    /\ args[o] # NoArgs
    /\ [args[p] EXCEPT !.merchant_id = args[o].merchant_id] = args[o]

\* C24: the merchant_id argument has no influence on the computation.  Of two
\* calls that differ only in merchant_id, the builders are equal at the same
\* statement, the compiled queries are equal, and with the same backend
\* answer the results are equal; the filter on column merchant_id carries the
\* publishable_key and no filter carries the merchant_id argument.
C24_MerchantIdHasNoInfluence ==
    /\ \A p \in procs :
          (args[p] # NoArgs /\ Len(qb[p].filters) > 0)
             => /\ qb[p].filters[1]
                      = [column |-> "merchant_id", op |-> "=",
                         value |-> args[p].publishable_key]
                /\ \A i \in DOMAIN qb[p].filters :
                      qb[p].filters[i].value # args[p].merchant_id
    /\ \A p, o \in procs :
          SameButMerchantId(p, o)
             => /\ pc[p] = pc[o] /\ pc[p] \in Range(StatementOrder)
                      => qb[p] = qb[o]
                /\ (compiled[p] # NoBuild /\ compiled[o] # NoBuild)
                      => /\ qb[p] = qb[o]
                         /\ compiled[p].build.ok /\ compiled[o].build.ok
                               => compiled[p].build.query = compiled[o].build.query
                /\ (sent[p] # NoQuery /\ sent[o] # NoQuery) => sent[p] = sent[o]
                /\ (/\ pc[p] = "done" /\ pc[o] = "done"
                    /\ compiled[p] = compiled[o]
                    /\ response[p] = response[o])
                      => result[p] = result[o]

C24_Witness ==
    \E p, o \in procs :
        /\ SameButMerchantId(p, o)
        /\ args[p].merchant_id # args[o].merchant_id
        /\ pc[p] = "done" /\ pc[o] = "done"
        /\ sent[p] = sent[o]
        /\ response[p] = response[o]
        /\ response[p].kind = "rows"
        /\ Len(response[p].rows) > 0
        /\ result[p].kind = "ok"
        /\ result[p] = result[o]

\* C25: in every set load_metrics returns, each pair's identifier is the one
\* built from the time_bucket of the row of that pair; so no row is under two
\* identifiers, and the set has as many pairs as the backend returned
\* distinct rows.
C25_IdentifierIsOfItsRow ==
    \A p \in procs :
        result[p].kind = "ok"
           => /\ \A e \in result[p].set :
                    /\ e[1] = [time_bucket |-> e[2].time_bucket]
                    /\ e[2] \in Range(response[p].rows)
              /\ \A e, f \in result[p].set : e[2] = f[2] => e[1] = f[1]
              /\ Cardinality(result[p].set) = Cardinality(Range(response[p].rows))

C25_Witness ==
    \E p \in procs :
        /\ pc[p] = "done"
        /\ result[p].kind = "ok"
        /\ Len(response[p].rows) = 2
        /\ response[p].rows[1] = response[p].rows[2]
        /\ response[p].rows[1].time_bucket # None
        /\ Cardinality(result[p].set) = 1

C25_WitnessTwoRows ==
    \E p \in procs :
        /\ pc[p] = "done"
        /\ result[p].kind = "ok"
        /\ Len(response[p].rows) = 2
        /\ response[p].rows[1].time_bucket # response[p].rows[2].time_bucket
        /\ response[p].rows[1].count = response[p].rows[2].count
        /\ Cardinality(result[p].set) = 2

\* C26: once execute_query has returned rows, load_metrics cannot fail.  The
\* fold succeeds on every row, PostProcessingFailure is never returned, and
\* every error returned comes from a clause call, from compilation or from
\* execution.
C26_NoFailureAfterExecution ==
    /\ [](\A p \in procs :
             /\ response[p].kind = "rows"
                   => /\ \A i \in DOMAIN response[p].rows : MapRow(response[p].rows[i]).ok
                      /\ pc[p] = "done" => result[p].kind = "ok"
                      /\ result[p].kind # "err"
             /\ ~Reported(p, "PostProcessingFailure")
             /\ result[p].kind = "err"
                   => \/ /\ Reported(p, "ClauseError")
                         /\ compiled[p] = NoBuild
                      \/ /\ Reported(p, "QueryBuildingError")
                         /\ BuildFailed(p)
                         /\ response[p] = NoResponse
                      \/ /\ Reported(p, "QueryExecutionFailure")
                         /\ BackendFailed(p))
    /\ [][\A p \in procs :
             pc[p] = "collect"
                => (pc'[p] = "collect" \/ (pc'[p] = "done" /\ result'[p].kind = "ok"))]_vars

C26_Witness ==
    \E p \in procs :
        /\ pc[p] = "done"
        /\ response[p].kind = "rows"
        /\ Len(response[p].rows) = 2
        /\ response[p].rows[1].time_bucket = None
        /\ response[p].rows[2].time_bucket = None
        /\ result[p].kind = "ok"

C26_WitnessExecutionError ==
    \E p \in procs :
        /\ pc[p] = "done"
        /\ Reported(p, "QueryExecutionFailure")
        /\ response[p] = [kind |-> "err", err |-> "Timeout"]

====
